---------------------------- MODULE Spec2Model ----------------------------
(***************************************************************************)
(* A model of ota-cli: the token lifecycle of Config::token, the request   *)
(* pipeline Http::send, package upload, the declarative target expansion   *)
(* TufPackages::from, command parsing and result rendering.                *)
(*                                                                         *)
(* Option<T> is a sequence of length at most one; a Rust String is a       *)
(* sequence of one-character strings; Result<T> is a record with the       *)
(* field ok.                                                               *)
(***************************************************************************)
EXTENDS Integers, Sequences, FiniteSets, TLC

VARIABLES
    proc,       \* per process: position, CLI arguments, Config, request log
    disk,       \* the config file ~/.ota.conf
    archive,    \* the credential archive credentials.zip
    issued,     \* number of access tokens the issuer has handed out
    runs,       \* number of invocations started
    scope,      \* AccessToken.scope handed to namespace()
    ns,         \* what namespace() returned
    mapping,    \* the TargetPackages handed to TufPackages::from
    traversal,  \* the order in which its HashMaps were iterated
    packages,   \* what TufPackages::from returned
    level,      \* the enum a command token is parsed as
    word,       \* the command token
    from_str,   \* what from_str returned
    body,           \* the bytes of the reposerver's response
    use_tables,     \* the table-mode flag
    preserve_order, \* whether serde_json is built with preserve_order
    command_result, \* the Result<CommandResult> of the handler
    stdout          \* what print_command_result wrote

procVars == <<proc, disk, archive, issued, runs>>
nsVars == <<scope, ns>>
expandVars == <<mapping, traversal, packages>>
parseVars == <<level, word, from_str>>
renderVars == <<body, use_tables, preserve_order, command_result, stdout>>
pureVars == <<nsVars, expandVars, parseVars, renderVars>>
vars == <<procVars, pureVars>>

None == <<>>
Some(x) == <<x>>
IsSome(o) == o # <<>>

Ok(v) == [ok |-> TRUE, val |-> v]
Err(e) == [ok |-> FALSE, err |-> e]

(***************************************************************************)
(* Bounds                                                                  *)
(***************************************************************************)
MaxRuns == 4
MaxPieces == 5
MaxUpper == 3

(***************************************************************************)
(* Strings                                                                 *)
(***************************************************************************)
NamespacePrefix == <<"n", "a", "m", "e", "s", "p", "a", "c", "e", ".">>

IsWhitespace(c) == c \in {" ", "\t", "\n"}

StartsWith(s, pre) ==
    /\ Len(s) >= Len(pre)
    /\ SubSeq(s, 1, Len(pre)) = pre

\* str::trim_start_matches: removes the prefix repeatedly
RECURSIVE TrimStartMatches(_, _)
TrimStartMatches(s, pre) ==
    IF StartsWith(s, pre)
    THEN TrimStartMatches(SubSeq(s, Len(pre) + 1, Len(s)), pre)
    ELSE s

\* str::split_whitespace: the maximal runs of non-whitespace characters
RECURSIVE SplitFrom(_, _, _)
SplitFrom(s, i, cur) ==
    IF i > Len(s)
    THEN IF cur = <<>> THEN <<>> ELSE <<cur>>
    ELSE IF IsWhitespace(s[i])
         THEN IF cur = <<>>
              THEN SplitFrom(s, i + 1, <<>>)
              ELSE <<cur>> \o SplitFrom(s, i + 1, <<>>)
         ELSE SplitFrom(s, i + 1, Append(cur, s[i]))

SplitWhitespace(s) == SplitFrom(s, 1, <<>>)

RECURSIVE FilterPrefix(_, _)
FilterPrefix(items, pre) ==
    IF items = <<>> THEN <<>>
    ELSE IF StartsWith(Head(items), pre)
         THEN <<Head(items)>> \o FilterPrefix(Tail(items), pre)
         ELSE FilterPrefix(Tail(items), pre)

(***************************************************************************)
(* AccessToken::namespace                                                  *)
(***************************************************************************)
Namespace(token_scope_opt) ==
    LET token_scope == IF IsSome(token_scope_opt) THEN token_scope_opt[1] ELSE <<>>
        kept == FilterPrefix(SplitWhitespace(token_scope), NamespacePrefix)
        scopes == [i \in 1..Len(kept) |-> TrimStartMatches(kept[i], NamespacePrefix)]
    IN  IF Len(scopes) = 1 THEN Ok(scopes[1]) ELSE Err("Token")


(***************************************************************************)
(* Credentials and the credential archive                                  *)
(***************************************************************************)
OAuth2Desc == [server |-> "issuer", client_id |-> "id", client_secret |-> "secret"]

CredentialsSet ==
    [no_auth : {None, Some(TRUE), Some(FALSE)}, oauth2 : {None, Some(OAuth2Desc)}]

\* credentials.zip: unreadable, or holding a treehub.json that deserializes
Archives ==
    {[readable |-> FALSE, creds |-> [no_auth |-> None, oauth2 |-> None]]}
    \cup {[readable |-> TRUE, creds |-> c] : c \in CredentialsSet}

\* Credentials::parse
CredentialsParse(zip) ==
    IF zip.readable THEN Ok(zip.creds) ELSE Err("Zip")

CredentialsOauth2DescriptorFirst(creds) ==
    IF IsSome(creds.oauth2) THEN Ok(creds.oauth2)
    ELSE IF creds.no_auth = Some(TRUE) THEN Ok(None)
    ELSE Err("Auth")

CredentialsOauth2DefaultNoAuth(creds) ==
    IF creds.no_auth = Some(TRUE) THEN Ok(None)
    ELSE IF IsSome(creds.oauth2) THEN Ok(creds.oauth2)
    ELSE Ok(None)

\* Credentials::oauth2
CredentialsOauth2(creds) ==
    IF creds.no_auth = Some(TRUE) THEN Ok(None)
    ELSE IF IsSome(creds.oauth2) THEN Ok(creds.oauth2)
    ELSE Err("Auth")

(***************************************************************************)
(* Config and the config file                                              *)
(***************************************************************************)
\* the length of serde_json::to_vec_pretty(&self), counted from the token
\* field on: null, or an object whose access_token strings are equally long
\* and whose scope is null or a string
ConfigBytes(config) ==
    IF config.token = None THEN 4
    ELSE 40 + (IF config.token[1].scope = None THEN 4 ELSE Len(config.token[1].scope[1]) + 2)

NoFile == [exists |-> FALSE, valid |-> FALSE, token |-> None, size |-> 0]
Truncated == [exists |-> TRUE, valid |-> FALSE, token |-> None, size |-> 0]
FileOf(config) ==
    [exists |-> TRUE, valid |-> TRUE, token |-> config.token, size |-> ConfigBytes(config)]

NewConfig == [credentials |-> None, token |-> None]

\* Config::load: credentials is #[serde(skip)], the token is read back
ConfigLoad(file) ==
    IF ~file.exists THEN Err("NotFound")
    ELSE IF ~file.valid THEN Err("Json")
    ELSE Ok([credentials |-> None, token |-> file.token])

\* Config::save: open(create, write, truncate) then write_all
SaveOutcomes == {"saved", "open_failed", "write_failed"}

ConfigSaveSkippingToken(config, file, outcome) ==
    CASE outcome = "saved" -> FileOf([config EXCEPT !.token = None])
      [] outcome = "open_failed" -> file
      [] OTHER -> Truncated

ConfigSave(config, file, outcome) ==
    CASE outcome = "saved" -> FileOf(config)
      [] outcome = "open_failed" -> file
      [] OTHER -> Truncated

ConfigCredentialsUncached(config, zip) ==
    [config |-> config, res |-> CredentialsParse(zip), parses |-> 1]

\* Config::credentials: parse once, then reuse
ConfigCredentials(config, zip) ==
    IF config.credentials = None
    THEN LET parsed == CredentialsParse(zip)
         IN  IF parsed.ok
             THEN [config |-> [config EXCEPT !.credentials = Some(parsed.val)],
                   res |-> Ok(parsed.val), parses |-> 1]
             ELSE [config |-> config, res |-> parsed, parses |-> 1]
    ELSE [config |-> config, res |-> Ok(config.credentials[1]), parses |-> 0]

(***************************************************************************)
(* Http::send                                                              *)
(***************************************************************************)
IssuerScopes == {None, Some(NamespacePrefix \o <<"x">>)}

AccessToken(n, sc) == [access_token |-> n, scope |-> sc]

RequestBearerWithNamespace(to, what, token) ==
    IF IsSome(token) /\ Namespace(token[1].scope).ok
    THEN [to |-> to, what |-> what,
          bearer |-> Some(token[1].access_token),
          namespace |-> Some(Namespace(token[1].scope).val)]
    ELSE [to |-> to, what |-> what, bearer |-> None, namespace |-> None]

\* the headers Http::send puts on a request
Request(to, what, token) ==
    IF IsSome(token)
    THEN LET name == Namespace(token[1].scope)
         IN  [to |-> to, what |-> what,
              bearer |-> Some(token[1].access_token),
              namespace |-> IF name.ok THEN Some(name.val) ELSE None]
    ELSE [to |-> to, what |-> what, bearer |-> None, namespace |-> None]

Statuses == {200, 404, 500}
SendOutcomes ==
    {[kind |-> "build_failed", status |-> 0], [kind |-> "transport_failed", status |-> 0]}
    \cup {[kind |-> "response", status |-> st] : st \in Statuses}

(***************************************************************************)
(* TargetPackages and TufPackages (the declarative package file)           *)
(***************************************************************************)
PackageNames == {"foo", "my-branch"}
PackageVersions == {"1", "1234"}

UrlStrings == {"https://acme.org/downloads/foo", "HTTPS://ACME.org", "downloads/foo"}

\* Url::parse: a relative reference has no base; scheme and host are
\* lower-cased and an empty path becomes "/"
UrlParse(u) ==
    CASE u = "https://acme.org/downloads/foo" -> Ok("https://acme.org/downloads/foo")
      [] u = "HTTPS://ACME.org" -> Ok("https://acme.org/")
      [] OTHER -> Err("Url")

FormatOf(name, version) == IF name = "foo" THEN "Binary" ELSE "Ostree"
HardwareOf(name, version) ==
    IF version = "1" THEN <<"acme-ecu-1">> ELSE <<"qemux86-64", "acme-ecu-2">>
PathOf(name, version) == "/ota/" \o name \o "-" \o version

\* the PackageMetadata records a file can give the pair (name, version)
MetadataOf(name, version, urls) ==
    [format : {FormatOf(name, version)},
     hardware : {HardwareOf(name, version)},
     path : {None, Some(PathOf(name, version))},
     url : {None} \cup {Some(u) : u \in urls}]

\* a HashMap is a function on its key set
VersionMaps(name, urls) ==
    UNION {{vm \in [vs -> UNION {MetadataOf(name, v, urls) : v \in vs}] :
              \A v \in vs : vm[v] \in MetadataOf(name, v, urls)}
           : vs \in SUBSET PackageVersions}

TargetPackagesOver(names, urls) ==
    UNION {{tp \in [ks -> UNION {VersionMaps(n, urls) : n \in ks}] :
              \A n \in ks : tp[n] \in VersionMaps(n, urls)}
           : ks \in SUBSET names}

\* the orders in which a HashMap can hand out its keys
Orders(S) ==
    {o \in [1..Cardinality(S) -> S] : \A i, j \in 1..Cardinality(S) : i # j => o[i] # o[j]}

\* one traversal of a TargetPackages: the order of the names and, for each
\* name, of its versions
Traversals(tp) ==
    [names : Orders(DOMAIN tp),
     versions : {vo \in [DOMAIN tp -> UNION {Orders(DOMAIN tp[n]) : n \in DOMAIN tp}] :
                   \A n \in DOMAIN tp : vo[n] \in Orders(DOMAIN tp[n])}]

ToPackagePreferringPath(name, version, meta) ==
    LET pkg(target) == [name |-> name, version |-> version, format |-> meta.format,
                        hardware |-> meta.hardware, target |-> target]
    IN  CASE IsSome(meta.path) ->
               Ok(pkg([kind |-> "Path", at |-> meta.path[1]]))
          [] meta.path = None /\ IsSome(meta.url) ->
               LET parsed == UrlParse(meta.url[1])
               IN  IF parsed.ok THEN Ok(pkg([kind |-> "Url", at |-> parsed.val]))
                   ELSE Err("Url")
          [] OTHER -> Err("Parse")

\* TufPackages::to_package
ToPackage(name, version, meta) ==
    LET pkg(target) == [name |-> name, version |-> version, format |-> meta.format,
                        hardware |-> meta.hardware, target |-> target]
    IN  CASE IsSome(meta.path) /\ meta.url = None ->
               Ok(pkg([kind |-> "Path", at |-> meta.path[1]]))
          [] meta.path = None /\ IsSome(meta.url) ->
               LET parsed == UrlParse(meta.url[1])
               IN  IF parsed.ok THEN Ok(pkg([kind |-> "Url", at |-> parsed.val]))
                   ELSE Err("Url")
          [] meta.path = None /\ meta.url = None -> Err("Parse")
          [] OTHER -> Err("Parse")

RECURSIVE CollectResultsSkippingErr(_)
CollectResultsSkippingErr(rs) ==
    IF rs = <<>> THEN Ok(<<>>)
    ELSE LET rest == CollectResultsSkippingErr(Tail(rs))
         IN  IF Head(rs).ok THEN Ok(<<Head(rs).val>> \o rest.val) ELSE rest

\* Iterator::collect::<Result<Vec<_>>>: the items up to the first Err, or that Err
RECURSIVE CollectResults(_)
CollectResults(rs) ==
    IF rs = <<>> THEN Ok(<<>>)
    ELSE IF ~Head(rs).ok THEN Head(rs)
    ELSE LET rest == CollectResults(Tail(rs))
         IN  IF rest.ok THEN Ok(<<Head(rs).val>> \o rest.val) ELSE rest

ToPackagesSharingMetadata(name, versions, order) ==
    CollectResults([i \in 1..Len(order) |-> ToPackage(name, order[i], versions[order[1]])])

\* TufPackages::to_packages
ToPackages(name, versions, order) ==
    CollectResults([i \in 1..Len(order) |-> ToPackage(name, order[i], versions[order[i]])])

RECURSIVE Flatten(_)
Flatten(lists) ==
    IF lists = <<>> THEN <<>> ELSE Head(lists) \o Flatten(Tail(lists))

\* TufPackages::from
TufPackagesFrom(targets, trav) ==
    LET each == [i \in 1..Len(trav.names) |->
                   ToPackages(trav.names[i], targets[trav.names[i]],
                              trav.versions[trav.names[i]])]
        collected == CollectResults(each)
    IN  IF collected.ok THEN Ok(Flatten(collected.val)) ELSE collected


(***************************************************************************)
(* The processes: one invocation of the CLI at a time per process          *)
(***************************************************************************)
Procs == {"p1", "p2"}
SeqProcs == {"p1"}

\* the values --device and --group are given on the command line
DeviceIds == {"0000000000000000000000000000000D", "device-1"}
GroupIds == {"00000000-0000-0000-0000-000000000009", "group-1"}

\* Uuid::from_str: the hyphenated and the simple form, in either case
UuidParse(val) ==
    CASE val = "0000000000000000000000000000000D" -> Ok("00000000-0000-0000-0000-00000000000d")
      [] val = "00000000-0000-0000-0000-000000000009" -> Ok(val)
      [] OTHER -> Err("Uuid")

\* the values a listing command can be given for --all, --device, --group
ListArgs ==
    [all : BOOLEAN,
     device : {None} \cup {Some(d) : d \in DeviceIds},
     group : {None} \cup {Some(g) : g \in GroupIds}]

\* parse_list_args
ParseListArgs(args) ==
    LET device == IF IsSome(args.device) THEN UuidParse(args.device[1]) ELSE Ok("")
        group == IF IsSome(args.group) THEN UuidParse(args.group[1]) ELSE Ok("")
    IN  IF ~device.ok THEN device
        ELSE IF ~group.ok THEN group
        ELSE Ok([all |-> args.all,
                 device |-> IF IsSome(args.device) THEN Some(device.val) ELSE None,
                 group |-> IF IsSome(args.group) THEN Some(group.val) ELSE None])

\* the RegistryApi call a listing command makes
NoCall == [name |-> "none", id |-> ""]
Call(name, id) == [name |-> name, id |-> id]

SelectListingDeviceFirst(parsed, on_all, on_device, on_group) ==
    IF ~parsed.ok THEN parsed
    ELSE IF IsSome(parsed.val.device) THEN Ok(Call(on_device, parsed.val.device[1]))
    ELSE IF parsed.val.all THEN Ok(Call(on_all, ""))
    ELSE IF IsSome(parsed.val.group) THEN Ok(Call(on_group, parsed.val.group[1]))
    ELSE Err("Args")

\* the match of list_device_args and list_group_args on the parsed tuple
SelectListing(parsed, on_all, on_device, on_group) ==
    IF ~parsed.ok THEN parsed
    ELSE IF parsed.val.all THEN Ok(Call(on_all, ""))
    ELSE IF IsSome(parsed.val.device) THEN Ok(Call(on_device, parsed.val.device[1]))
    ELSE IF IsSome(parsed.val.group) THEN Ok(Call(on_group, parsed.val.group[1]))
    ELSE Err("Args")

\* Registry::list_device_args
ListDeviceArgs(args) ==
    SelectListing(ParseListArgs(args), "list_all_devices", "list_device", "list_devices")

\* Registry::list_group_args
ListGroupArgs(args) ==
    SelectListing(ParseListArgs(args), "list_all_groups", "list_groups", "list_devices")

\* the declarative files `package upload` is run on
UploadFiles == TargetPackagesOver({"foo"}, {"https://acme.org/downloads/foo", "downloads/foo"})

NoArgs == [cmd |-> "none", sub |-> "none", urls_valid |-> TRUE,
           reposerver |-> TRUE, packages |-> None,
           all |-> FALSE, device |-> None, group |-> None, call |-> NoCall]

Idle == [pc |-> "idle", args |-> NoArgs, config |-> NewConfig, token |-> None,
         queue |-> <<>>, responses |-> <<>>, sent |-> <<>>, received |-> <<>>,
         replaced |-> NoFile, result |-> None,
         loads |-> 0, parses |-> 0, writes |-> 0]

\* CommandResult
Empty == [kind |-> "Empty", status |-> 0, what |-> <<>>]
Http(resp) == [kind |-> "Http", status |-> resp.status, what |-> resp.what]

\* a panic: the process aborts, no Error value is returned
Panicked == [ok |-> FALSE, err |-> "panicked"]

Grants(st) == Len(SelectSeq(st.sent, LAMBDA r : r.to = "issuer"))
DoneUnlessTokenError(st, res) ==
    IF st.pc = "token" /\ ~res.ok THEN [st EXCEPT !.pc = "send"]
    ELSE [st EXCEPT !.pc = "done", !.result = Some(res)]

\* the command returns res
Done(st, res) == [st EXCEPT !.pc = "done", !.result = Some(res)]

ConfigInitKeepingToken(file, outcome) ==
    ConfigSave([NewConfig EXCEPT !.token = file.token], file, outcome)

\* Config::init: the Config literal with token: None, and save_default
ConfigInit(file, outcome) == ConfigSave(NewConfig, file, outcome)

\* Command::exec for Command::Init: Config::init_from_args, Config::init;
\* `replaced` keeps the file init found in place
InitExec(p) ==
    /\ proc[p].pc = "idle"
    /\ runs < MaxRuns
    /\ runs' = runs + 1
    /\ \E urls_valid \in BOOLEAN, reposerver \in BOOLEAN, outcome \in SaveOutcomes :
         LET st == [proc[p] EXCEPT !.args = [NoArgs EXCEPT !.cmd = "init",
                                                            !.urls_valid = urls_valid,
                                                            !.reposerver = reposerver],
                                   !.replaced = disk]
         IN  IF ~urls_valid
             THEN /\ proc' = [proc EXCEPT ![p] = Done(st, Err("Url"))]
                  /\ UNCHANGED disk
             ELSE IF ~reposerver /\ ~archive.readable
             THEN /\ proc' = [proc EXCEPT ![p] = Done(st, Err("Zip"))]
                  /\ UNCHANGED disk
             ELSE /\ disk' = ConfigInit(disk, outcome)
                  /\ proc' = [proc EXCEPT ![p] =
                        Done([st EXCEPT !.writes = @ + 1],
                             IF outcome = "saved" THEN Ok(Empty) ELSE Err("Io"))]
    /\ UNCHANGED <<archive, issued>>
    /\ UNCHANGED pureVars

\* Exec for Package: Config::load_default, then the sub-command's arguments
PackageExec(p) ==
    /\ proc[p].pc = "idle"
    /\ runs < MaxRuns
    /\ runs' = runs + 1
    /\ \E sub \in {"fetch", "upload"} :
       \E file \in IF sub = "upload" THEN {None} \cup {Some(tp) : tp \in UploadFiles}
                   ELSE {None} :
         LET loaded == ConfigLoad(disk)
             st == [proc[p] EXCEPT !.args = [NoArgs EXCEPT !.cmd = "package",
                                                            !.sub = sub,
                                                            !.packages = file],
                                   !.loads = @ + 1]
         IN  IF ~loaded.ok
             THEN proc' = [proc EXCEPT ![p] = Done(st, loaded)]
             ELSE IF sub = "fetch"
             THEN proc' = [proc EXCEPT ![p] = [st EXCEPT !.config = loaded.val,
                                                         !.pc = "token"]]
             ELSE IF file = None
             THEN proc' = [proc EXCEPT ![p] = Done([st EXCEPT !.config = loaded.val],
                                                  Err("Toml"))]
             ELSE \E trav \in Traversals(file[1]) :
                    LET tuf == TufPackagesFrom(file[1], trav)
                    IN  IF tuf.ok
                        THEN proc' = [proc EXCEPT ![p] =
                                 [st EXCEPT !.config = loaded.val, !.queue = tuf.val,
                                            !.pc = "add_packages"]]
                        ELSE proc' = [proc EXCEPT ![p] =
                                 Done([st EXCEPT !.config = loaded.val], tuf)]
    /\ UNCHANGED <<disk, archive, issued>>
    /\ UNCHANGED pureVars

\* Exec for Device and Group with the sub-command list: Config::load_default,
\* then list_device_args or list_group_args
ListExec(p) ==
    /\ proc[p].pc = "idle"
    /\ runs < MaxRuns
    /\ runs' = runs + 1
    /\ \E cmd \in {"device", "group"}, la \in ListArgs :
         LET loaded == ConfigLoad(disk)
             st == [proc[p] EXCEPT !.args = [NoArgs EXCEPT !.cmd = cmd, !.sub = "list",
                                                            !.all = la.all,
                                                            !.device = la.device,
                                                            !.group = la.group],
                                   !.loads = @ + 1]
             chosen == IF cmd = "device" THEN ListDeviceArgs(la) ELSE ListGroupArgs(la)
         IN  IF ~loaded.ok
             THEN proc' = [proc EXCEPT ![p] = Done(st, loaded)]
             ELSE IF ~chosen.ok
             THEN proc' = [proc EXCEPT ![p] = Done([st EXCEPT !.config = loaded.val], chosen)]
             ELSE proc' = [proc EXCEPT ![p] = [st EXCEPT !.config = loaded.val,
                                                         !.args.call = chosen.val,
                                                         !.pc = "token"]]
    /\ UNCHANGED <<disk, archive, issued>>
    /\ UNCHANGED pureVars

\* Reposerver::add_packages taking the next package, and add_package
\* building its request (the multipart form opens the file)
AddPackage(p) ==
    /\ proc[p].pc = "add_packages"
    /\ proc[p].queue # <<>>
    /\ \E opened \in BOOLEAN :
         proc' = [proc EXCEPT ![p] =
                    IF opened THEN [@ EXCEPT !.pc = "token"] ELSE Done(@, Err("Io"))]
    /\ UNCHANGED <<disk, archive, issued, runs>>
    /\ UNCHANGED pureVars

\* Config::token: `match self.token { Some(_) => ..., None => ... }`
TokenCacheIgnored(config) == FALSE
TokenCached(config) == IsSome(config.token)

StoreTokenDropped(config, fresh) == config

\* Config::token: self.token = Some(token)
StoreToken(config, fresh) == [config EXCEPT !.token = Some(fresh)]

\* what the issuer's answer to the grant request can be
GrantOutcomes ==
    {[kind |-> k, scope |-> None] : k \in {"build_failed", "transport_failed", "malformed"}}
    \cup {[kind |-> "token", scope |-> sc] : sc \in IssuerScopes}

\* Config::token, with AuthPlus::refresh_token and Config::credentials
Token(p) ==
    /\ proc[p].pc = "token"
    /\ LET st == proc[p]
       IN  IF TokenCached(st.config)
           THEN /\ proc' = [proc EXCEPT ![p] = [st EXCEPT !.token = st.config.token,
                                                          !.pc = "send"]]
                /\ UNCHANGED <<disk, issued>>
           ELSE LET cr == ConfigCredentials(st.config, archive)
                    st1 == [st EXCEPT !.config = cr.config, !.parses = @ + cr.parses]
                IN  IF ~cr.res.ok
                    THEN /\ proc' = [proc EXCEPT ![p] = Done(st1, cr.res)]
                         /\ UNCHANGED <<disk, issued>>
                    ELSE IF ~CredentialsOauth2(cr.res.val).ok
                    THEN /\ proc' = [proc EXCEPT ![p] =
                                        Done(st1, CredentialsOauth2(cr.res.val))]
                         /\ UNCHANGED <<disk, issued>>
                    ELSE IF CredentialsOauth2(cr.res.val).val = None
                    THEN /\ proc' = [proc EXCEPT ![p] = [st1 EXCEPT !.token = st1.config.token,
                                                                    !.pc = "send"]]
                         /\ UNCHANGED <<disk, issued>>
                    ELSE \E g \in GrantOutcomes, outcome \in SaveOutcomes :
                           LET req == Request("issuer", <<"token">>, None)
                               st2 == [st1 EXCEPT !.sent = Append(@, req)]
                               fresh == AccessToken(issued + 1, g.scope)
                               st3 == [st2 EXCEPT !.config = StoreToken(@, fresh),
                                                  !.writes = @ + 1]
                           IN  CASE g.kind = "build_failed" ->
                                      /\ proc' = [proc EXCEPT ![p] = Done(st1, Err("Http"))]
                                      /\ UNCHANGED <<disk, issued>>
                                 [] g.kind \in {"transport_failed", "malformed"} ->
                                      /\ proc' = [proc EXCEPT ![p] = Done(st2, Err("Http"))]
                                      /\ UNCHANGED <<disk, issued>>
                                 [] OTHER ->
                                      /\ issued < MaxRuns
                                      /\ issued' = issued + 1
                                      /\ disk' = ConfigSave(st3.config, disk, outcome)
                                      /\ proc' = [proc EXCEPT ![p] =
                                            IF outcome = "saved"
                                            THEN [st3 EXCEPT !.token = st3.config.token,
                                                             !.pc = "send"]
                                            ELSE Done(st3, Err("Io"))]
    /\ UNCHANGED <<archive, runs>>
    /\ UNCHANGED pureVars

(***************************************************************************)
(* Config::token step by step, for processes that run side by side: the    *)
(* part up to `self.token = Some(token)`, then the two system calls of     *)
(* Config::save, open with truncation and write at the start of the file.  *)
(***************************************************************************)
TokenFetch(p) ==
    /\ proc[p].pc = "token"
    /\ LET st == proc[p]
           cr == ConfigCredentials(st.config, archive)
           st1 == [st EXCEPT !.config = cr.config, !.parses = @ + cr.parses]
       IN  IF TokenCached(st.config)
           THEN /\ proc' = [proc EXCEPT ![p] = [st EXCEPT !.token = st.config.token,
                                                          !.pc = "send"]]
                /\ UNCHANGED issued
           ELSE IF ~cr.res.ok
           THEN /\ proc' = [proc EXCEPT ![p] = Done(st1, cr.res)]
                /\ UNCHANGED issued
           ELSE IF ~CredentialsOauth2(cr.res.val).ok
           THEN /\ proc' = [proc EXCEPT ![p] = Done(st1, CredentialsOauth2(cr.res.val))]
                /\ UNCHANGED issued
           ELSE IF CredentialsOauth2(cr.res.val).val = None
           THEN /\ proc' = [proc EXCEPT ![p] = [st1 EXCEPT !.token = st1.config.token,
                                                           !.pc = "send"]]
                /\ UNCHANGED issued
           ELSE \E g \in GrantOutcomes :
                  LET st2 == [st1 EXCEPT !.sent = Append(@, Request("issuer", <<"token">>, None))]
                      fresh == AccessToken(issued + 1, g.scope)
                  IN  CASE g.kind = "build_failed" ->
                             /\ proc' = [proc EXCEPT ![p] = Done(st1, Err("Http"))]
                             /\ UNCHANGED issued
                        [] g.kind \in {"transport_failed", "malformed"} ->
                             /\ proc' = [proc EXCEPT ![p] = Done(st2, Err("Http"))]
                             /\ UNCHANGED issued
                        [] OTHER ->
                             /\ issued < MaxRuns
                             /\ issued' = issued + 1
                             /\ proc' = [proc EXCEPT ![p] =
                                   [st2 EXCEPT !.config = StoreToken(@, fresh),
                                               !.pc = "save_open"]]
    /\ UNCHANGED <<disk, archive, runs>>
    /\ UNCHANGED pureVars

\* OpenOptions::new().create(true).write(true).truncate(true).open(path)
SaveOpen(p) ==
    /\ proc[p].pc = "save_open"
    /\ \E opened \in BOOLEAN :
         IF opened
         THEN /\ disk' = Truncated
              /\ proc' = [proc EXCEPT ![p] = [@ EXCEPT !.pc = "save_write", !.writes = @ + 1]]
         ELSE /\ proc' = [proc EXCEPT ![p] = Done([@ EXCEPT !.writes = @ + 1], Err("Io"))]
              /\ UNCHANGED disk
    /\ UNCHANGED <<archive, issued, runs>>
    /\ UNCHANGED pureVars

WriteOverAppending(file, config) ==
    IF file.size = 0 THEN FileOf(config)
    ELSE [exists |-> TRUE, valid |-> FALSE, token |-> None, size |-> file.size]

\* what a write of the config at offset 0 leaves in the file: the config,
\* or, over a longer file written meanwhile, the config followed by the
\* rest of that file, which is no JSON document
WriteOver(file, config) ==
    IF ConfigBytes(config) >= file.size THEN FileOf(config)
    ELSE [exists |-> TRUE, valid |-> FALSE, token |-> None, size |-> file.size]

\* file.write_all(..), then token() returns self.token.clone()
SaveWrite(p) ==
    /\ proc[p].pc = "save_write"
    /\ \E written \in BOOLEAN :
         IF written
         THEN /\ disk' = WriteOver(disk, proc[p].config)
              /\ proc' = [proc EXCEPT ![p] = [@ EXCEPT !.token = proc[p].config.token,
                                                       !.pc = "send"]]
         ELSE /\ proc' = [proc EXCEPT ![p] = Done(@, Err("Io"))]
              /\ UNCHANGED disk
    /\ UNCHANGED <<archive, issued, runs>>
    /\ UNCHANGED pureVars

\* `package fetch` started by process p
FetchExec(p) == PackageExec(p) /\ proc'[p].args.sub = "fetch"

\* the service the pipeline call in progress goes to, and what it asks
Service(st) == IF st.args.cmd = "package" THEN "reposerver" ELSE "registry"
Wanted(st) ==
    IF st.args.sub = "upload"
    THEN <<"put", Head(st.queue).name, Head(st.queue).version>>
    ELSE IF st.args.sub = "list"
    THEN <<"get", st.args.call.name, st.args.call.id>>
    ELSE <<"get", "name", "version">>

ExecuteErrorForStatus(o, what) ==
    IF o.kind = "response" /\ o.status < 400
    THEN Ok([status |-> o.status, what |-> what])
    ELSE Err("Http")

\* Client::new().execute(req).map_err(Error::Http): whatever the server
\* answers is the Response, an Err is a request that got no answer
Execute(o, what) ==
    IF o.kind = "response" THEN Ok([status |-> o.status, what |-> what])
    ELSE Err("Http")

\* Http::send for the command's own request, and what the caller does with
\* the response; `received` keeps the status lines the server answered with
Send(p) ==
    /\ proc[p].pc = "send"
    /\ \E o \in SendOutcomes :
         LET st == proc[p]
             req == Request(Service(st), Wanted(st), st.token)
             st1 == [st EXCEPT !.sent = Append(@, req),
                               !.received = IF o.kind = "response"
                                            THEN Append(@, o.status) ELSE @]
             executed == Execute(o, Wanted(st))
             resp == executed.val
         IN  CASE o.kind = "build_failed" ->
                    proc' = [proc EXCEPT ![p] = Done(st, Err("Http"))]
               [] ~executed.ok ->
                    proc' = [proc EXCEPT ![p] = Done(st1, executed)]
               [] OTHER ->
                    IF st.args.sub = "upload"
                    THEN proc' = [proc EXCEPT ![p] =
                             [st1 EXCEPT !.responses = Append(@, resp),
                                         !.queue = Tail(@),
                                         !.pc = "add_packages"]]
                    ELSE proc' = [proc EXCEPT ![p] = Done(st1, Ok(Http(resp)))]
    /\ UNCHANGED <<disk, archive, issued, runs>>
    /\ UNCHANGED pureVars

ResponsesRemoveFirst(responses, index) == responses[1]

\* Vec::remove(index), index counted from 0
ResponsesRemove(responses, index) == responses[index + 1]

\* usize::MAX, the value 0 - 1 wraps to; it stands for 2^64 - 1, beyond the
\* length of any Vec
UsizeMax == 2147483647

LastIndexChecked(len, overflow_checks) ==
    IF len >= 1 THEN Ok(len - 1) ELSE Err("Args")

\* `responses.len() - 1` in usize: 0 - 1 panics in a build with overflow
\* checks and wraps in a build without them
LastIndex(len, overflow_checks) ==
    IF len >= 1 THEN Ok(len - 1)
    ELSE IF overflow_checks THEN Panicked
    ELSE Ok(UsizeMax)

\* Reposerver::add_packages after the last package: responses.remove(len - 1);
\* Vec::remove panics on an index that is not below the length
AddPackagesReturn(p) ==
    /\ proc[p].pc = "add_packages"
    /\ proc[p].queue = <<>>
    /\ \E overflow_checks \in BOOLEAN :
         LET st == proc[p]
             last == LastIndex(Len(st.responses), overflow_checks)
         IN  proc' = [proc EXCEPT ![p] =
                        IF ~last.ok THEN Done(st, last)
                        ELSE IF last.val >= Len(st.responses) THEN Done(st, Panicked)
                        ELSE Done(st, Ok(Http(ResponsesRemove(st.responses, last.val))))]
    /\ UNCHANGED <<disk, archive, issued, runs>>
    /\ UNCHANGED pureVars

\* the process prints the result and exits
Exit(p) ==
    /\ proc[p].pc = "done"
    /\ proc' = [proc EXCEPT ![p] = Idle]
    /\ UNCHANGED <<disk, archive, issued, runs>>
    /\ UNCHANGED pureVars

ProcInit ==
    /\ proc = [p \in Procs |-> Idle]
    /\ disk = NoFile
    /\ archive \in Archives
    /\ issued = 0
    /\ runs = 0

NsIdle == scope = None /\ ns = None
ExpandIdle == mapping = <<>> /\ traversal = None /\ packages = None

ParseIdle == level = "Command" /\ word = <<>> /\ from_str = None

RenderIdle ==
    /\ body = <<>>
    /\ use_tables = FALSE
    /\ preserve_order = FALSE
    /\ command_result = None
    /\ stdout = None

Init == ProcInit /\ NsIdle /\ ExpandIdle /\ ParseIdle /\ RenderIdle

Next ==
    \E p \in SeqProcs :
       \/ InitExec(p)
       \/ PackageExec(p)
       \/ AddPackage(p)
       \/ Token(p)
       \/ Send(p)
       \/ AddPackagesReturn(p)
       \/ Exit(p)

Spec == Init /\ [][Next]_vars

\* the listing commands, after init has written the config file
ListingNext ==
    \E p \in SeqProcs :
       \/ InitExec(p)
       \/ ListExec(p)
       \/ Token(p)
       \/ Send(p)
       \/ Exit(p)

SpecListing == Init /\ [][ListingNext]_vars

\* two processes side by side, after init has written the config file
RaceInit ==
    /\ proc = [p \in Procs |-> Idle]
    /\ disk = FileOf(NewConfig)
    /\ archive \in Archives
    /\ issued = 0
    /\ runs = 0
    /\ NsIdle /\ ExpandIdle /\ ParseIdle /\ RenderIdle

RaceNext ==
    \E p \in Procs :
       \/ FetchExec(p)
       \/ TokenFetch(p)
       \/ SaveOpen(p)
       \/ SaveWrite(p)
       \/ Send(p)
       \/ Exit(p)

SpecRace == RaceInit /\ [][RaceNext]_vars


(***************************************************************************)
(* Properties of the token lifecycle                                       *)
(***************************************************************************)
\* process p takes a step of Config::token
TokenStep(p) == proc[p].pc = "token" /\ proc'[p] # proc[p]

\* what a token() call leaves alone when it neither refreshes nor fails
NothingFetched(p) ==
    /\ proc'[p].sent = proc[p].sent
    /\ proc'[p].parses = proc[p].parses
    /\ proc'[p].writes = proc[p].writes
    /\ proc'[p].config = proc[p].config
    /\ disk' = disk
    /\ issued' = issued

\* C1: token() on a Configuration that holds a cached token (loaded from the
\* config file, or stored by a refresh earlier in the same run, after which
\* the token is always present) returns that token, sends nothing to the
\* issuer, does not parse the archive and does not write the config file.
C1_CachedTokenReused ==
    [][\A p \in Procs :
         (TokenStep(p) /\ (IsSome(proc[p].config.token) \/ Grants(proc[p]) > 0))
         => /\ IsSome(proc[p].config.token)
            /\ proc'[p].pc = "send"
            /\ proc'[p].token = proc[p].config.token
            /\ NothingFetched(p)]_vars

\* a second token() call of a batch upload has returned the token that the
\* first call of the same run fetched
C1_Witness ==
    \E p \in Procs :
       /\ proc[p].pc = "send"
       /\ Len(proc[p].responses) = 1
       /\ Grants(proc[p]) = 1
       /\ proc[p].writes = 1
       /\ IsSome(proc[p].token)
       /\ proc[p].token = proc[p].config.token

\* the Credentials token acquisition works with: those cached on the
\* Configuration, else those the archive parses to
ParsedCredentials(p) ==
    IF IsSome(proc[p].config.credentials) THEN proc[p].config.credentials
    ELSE IF archive.readable THEN Some(archive.creds)
    ELSE None

\* C2: with no_auth = true in the parsed Credentials and no cached token,
\* token() returns None and sends no request, with or without an OAuth2
\* descriptor in the credentials.
C2_NoAuthNoRequest ==
    [][\A p \in Procs :
         (/\ TokenStep(p)
          /\ proc[p].config.token = None
          /\ IsSome(ParsedCredentials(p))
          /\ ParsedCredentials(p)[1].no_auth = Some(TRUE))
         => /\ proc'[p].pc = "send"
            /\ proc'[p].token = None
            /\ proc'[p].config.token = None
            /\ proc'[p].sent = proc[p].sent
            /\ proc'[p].writes = proc[p].writes
            /\ disk' = disk
            /\ issued' = issued]_vars

\* token() has returned None in no-auth mode although the credentials also
\* hold an OAuth2 descriptor
C2_Witness ==
    \E p \in Procs :
       /\ proc[p].pc = "send"
       /\ proc[p].token = None
       /\ proc[p].sent = <<>>
       /\ proc[p].config.credentials = Some([no_auth |-> Some(TRUE),
                                             oauth2 |-> Some(OAuth2Desc)])

\* C3: with neither no_auth = true nor an OAuth2 descriptor in the parsed
\* Credentials, token acquisition fails with Error::Auth and sends nothing.
C3_NoMethodIsAuthError ==
    [][\A p \in Procs :
         (/\ TokenStep(p)
          /\ proc[p].config.token = None
          /\ IsSome(ParsedCredentials(p))
          /\ ParsedCredentials(p)[1].no_auth # Some(TRUE)
          /\ ParsedCredentials(p)[1].oauth2 = None)
         => /\ proc'[p].pc = "done"
            /\ proc'[p].result = Some(Err("Auth"))
            /\ proc'[p].config.token = None
            /\ proc'[p].sent = proc[p].sent
            /\ proc'[p].writes = proc[p].writes
            /\ disk' = disk
            /\ issued' = issued]_vars

\* token acquisition has failed with Error::Auth on credentials that say
\* no_auth = false and have no OAuth2 descriptor
C3_Witness ==
    \E p \in Procs :
       /\ proc[p].pc = "done"
       /\ proc[p].result = Some(Err("Auth"))
       /\ proc[p].sent = <<>>
       /\ proc[p].config.credentials = Some([no_auth |-> Some(FALSE), oauth2 |-> None])

\* C4: when token() returns a token it has just fetched, that token is
\* already stored on the Configuration and in the config file.
C4_FreshTokenPersisted ==
    [][\A p \in Procs :
         (/\ TokenStep(p)
          /\ proc[p].config.token = None
          /\ proc'[p].pc = "send"
          /\ IsSome(proc'[p].token))
         => /\ proc'[p].config.token = proc'[p].token
            /\ proc'[p].writes = proc[p].writes + 1
            /\ disk'.exists /\ disk'.valid /\ disk'.token = proc'[p].token]_vars

\* token() has returned a token fetched in this run, and the file holds it
C4_Witness ==
    \E p \in Procs :
       /\ proc[p].pc = "send"
       /\ Grants(proc[p]) = 1
       /\ Len(proc[p].sent) = 1
       /\ IsSome(proc[p].token)
       /\ disk.token = proc[p].token

(***************************************************************************)
(* Properties of package upload                                            *)
(***************************************************************************)
\* a PackageMetadata with both `path` and `url`, or with neither
BothOrNeither(meta) == IsSome(meta.path) <=> IsSome(meta.url)

InvalidPairs(tp) ==
    {<<n, v>> \in PackageNames \X PackageVersions :
        n \in DOMAIN tp /\ v \in DOMAIN tp[n] /\ BothOrNeither(tp[n][v])}

\* process p starts `package upload` on a file that parses
UploadStep(p) ==
    /\ proc[p].pc = "idle"
    /\ proc'[p].pc # "idle"
    /\ proc'[p].args.sub = "upload"
    /\ IsSome(proc'[p].args.packages)

\* C6: a record with both `path` and `url`, or with neither, is rejected by
\* to_package with Error::Parse, and `package upload` on a file holding such
\* a record ends in an error before any upload or token request is sent.
C6_BothOrNeitherRejected ==
    [][\A p \in Procs :
         (UploadStep(p) /\ InvalidPairs(proc'[p].args.packages[1]) # {})
         => LET tp == proc'[p].args.packages[1]
            IN  /\ \A pair \in InvalidPairs(tp) :
                      ToPackage(pair[1], pair[2], tp[pair[1]][pair[2]]) = Err("Parse")
                /\ proc'[p].pc = "done"
                /\ IsSome(proc'[p].result)
                /\ ~proc'[p].result[1].ok
                /\ ConfigLoad(disk).ok => proc'[p].result[1].err \in {"Parse", "Url"}
                /\ proc'[p].queue = <<>>
                /\ proc'[p].sent = <<>>
                /\ proc'[p].parses = 0
                /\ proc'[p].token = None
                /\ issued' = issued
                /\ disk' = disk]_vars

\* `package upload` has stopped with Error::Parse on a file that holds one
\* valid record and one record with both `path` and `url`
C6_Witness ==
    \E p \in Procs :
       /\ proc[p].pc = "done"
       /\ proc[p].args.sub = "upload"
       /\ proc[p].result = Some(Err("Parse"))
       /\ proc[p].sent = <<>>
       /\ IsSome(proc[p].args.packages)
       /\ \E n \in DOMAIN proc[p].args.packages[1] :
            LET vm == proc[p].args.packages[1][n]
            IN  \E v, w \in DOMAIN vm :
                   /\ IsSome(vm[v].path) /\ IsSome(vm[v].url)
                   /\ IsSome(vm[w].path) /\ vm[w].url = None


\* no process runs: the specifications of the pure functions
ProcIdle ==
    /\ proc = [p \in Procs |-> Idle]
    /\ disk = NoFile
    /\ archive = [readable |-> TRUE, creds |-> [no_auth |-> Some(TRUE), oauth2 |-> None]]
    /\ issued = 0
    /\ runs = 0

(***************************************************************************)
(* AccessToken::namespace on bounded scope strings                         *)
(***************************************************************************)
ScopePieces == {NamespacePrefix, <<"x">>, <<" ">>, <<"n", "a">>}

ScopeStrings ==
    {Flatten(ps) : ps \in UNION {[1..n -> ScopePieces] : n \in 0..MaxPieces}}

NsInit ==
    /\ scope \in {None} \cup {Some(str) : str \in ScopeStrings}
    /\ ns = None
    /\ ProcIdle /\ ExpandIdle /\ ParseIdle /\ RenderIdle

NamespaceCall ==
    /\ ns = None
    /\ ns' = Some(Namespace(scope))
    /\ UNCHANGED <<scope, procVars, expandVars, parseVars, renderVars>>

NsNext == NamespaceCall

SpecNamespace == NsInit /\ [][NsNext]_vars

\* the entries of the scope string of the form `namespace.X`
NamespaceEntries ==
    FilterPrefix(SplitWhitespace(IF IsSome(scope) THEN scope[1] ELSE <<>>), NamespacePrefix)

\* an entry without its first Len("namespace.") characters
WithoutPrefix(entry) == SubSeq(entry, Len(NamespacePrefix) + 1, Len(entry))

\* C5: with exactly one entry `namespace.X` in the scope, namespace() returns
\* X, the entry with the single leading `namespace.` removed; with no such
\* entry (or no scope) or with several, it fails with Error::Token.
C5_NamespaceIsTheOneEntry ==
    IsSome(ns) =>
       IF Len(NamespaceEntries) = 1
       THEN ns[1] = Ok(WithoutPrefix(NamespaceEntries[1]))
       ELSE ns[1] = Err("Token")

(***************************************************************************)
(* TufPackages::from on bounded TargetPackages                             *)
(***************************************************************************)
ExpandInit ==
    /\ mapping \in TargetPackagesOver(PackageNames, UrlStrings)
    /\ traversal = None
    /\ packages = None
    /\ ProcIdle /\ NsIdle /\ ParseIdle /\ RenderIdle

FromCall ==
    /\ packages = None
    /\ \E trav \in Traversals(mapping) :
         /\ traversal' = Some(trav)
         /\ packages' = Some(TufPackagesFrom(mapping, trav))
    /\ UNCHANGED <<mapping, procVars, nsVars, parseVars, renderVars>>

ExpandNext == FromCall

SpecExpand == ExpandInit /\ [][ExpandNext]_vars

\* the (name, version) pairs of the mapping
Pairs(tp) ==
    {<<n, v>> \in PackageNames \X PackageVersions : n \in DOMAIN tp /\ v \in DOMAIN tp[n]}

\* a record that to_package accepts: exactly one of path and url, and a url
\* that parses
ValidRecord(meta) ==
    /\ ~BothOrNeither(meta)
    /\ IsSome(meta.url) => UrlParse(meta.url[1]).ok

\* the target the record of a pair must carry
TargetOf(meta) ==
    IF IsSome(meta.path) THEN [kind |-> "Path", at |-> meta.path[1]]
    ELSE [kind |-> "Url", at |-> UrlParse(meta.url[1]).val]

\* C7: a mapping of N pairs, all valid, expands to exactly N records, one per
\* pair, each with the name, version, format, hardware ids and target of its
\* own pair.
C7_OneRecordPerPair ==
    (IsSome(packages) /\ \A pair \in Pairs(mapping) : ValidRecord(mapping[pair[1]][pair[2]]))
    => /\ packages[1].ok
       /\ Len(packages[1].val) = Cardinality(Pairs(mapping))
       /\ \A pair \in Pairs(mapping) :
             \E i \in 1..Len(packages[1].val) :
                packages[1].val[i] =
                   [name |-> pair[1], version |-> pair[2],
                    format |-> mapping[pair[1]][pair[2]].format,
                    hardware |-> mapping[pair[1]][pair[2]].hardware,
                    target |-> TargetOf(mapping[pair[1]][pair[2]])]

\* a mapping of four valid pairs, with path and url mapping, was expanded
C7_Witness ==
    /\ IsSome(packages)
    /\ packages[1].ok
    /\ Len(packages[1].val) = 4
    /\ \E i, j \in 1..4 :
          /\ packages[1].val[i].target.kind = "Path"
          /\ packages[1].val[j].target = [kind |-> "Url", at |-> "https://acme.org/"]

\* C8: if any record of the mapping fails validation, TufPackages::from
\* returns an error and no list, wherever the record comes in the traversal
\* and however many records are valid.
C8_AllOrNothing ==
    (IsSome(packages) /\ \E pair \in Pairs(mapping) : ~ValidRecord(mapping[pair[1]][pair[2]]))
    => packages[1] \in {Err("Parse"), Err("Url")}

\* the expansion failed on a mapping whose only bad record came last in the
\* traversal, after three valid ones
C8_Witness ==
    /\ IsSome(packages)
    /\ ~packages[1].ok
    /\ Cardinality(Pairs(mapping)) = 4
    /\ LET trav == traversal[1]
           lastName == trav.names[Len(trav.names)]
           lastVersion == trav.versions[lastName][Len(trav.versions[lastName])]
       IN  \A pair \in Pairs(mapping) :
              ValidRecord(mapping[pair[1]][pair[2]]) <=> pair # <<lastName, lastVersion>>


(***************************************************************************)
(* Command parsing (FromStr for Command, Campaign, Device, Group, Package  *)
(* and Update)                                                             *)
(***************************************************************************)
UpperCase == <<"A", "B", "C", "D", "E", "F", "G", "H", "I", "J", "K", "L", "M",
               "N", "O", "P", "Q", "R", "S", "T", "U", "V", "W", "X", "Y", "Z">>
LowerCase == <<"a", "b", "c", "d", "e", "f", "g", "h", "i", "j", "k", "l", "m",
               "n", "o", "p", "q", "r", "s", "t", "u", "v", "w", "x", "y", "z">>

\* U+212A KELVIN SIGN, the one non-ASCII character whose lowercase is ASCII
KelvinSign == "U+212A"

\* char::to_lowercase
LowerChar(c) ==
    IF \E i \in 1..Len(UpperCase) : UpperCase[i] = c
    THEN LowerCase[CHOOSE i \in 1..Len(UpperCase) : UpperCase[i] = c]
    ELSE IF c = KelvinSign THEN "k"
    ELSE c

ToLowercaseKeepingCase(s) == s

\* str::to_lowercase
ToLowercase(s) == [i \in 1..Len(s) |-> LowerChar(s[i])]

\* the words the from_str functions match, as strings of characters
Words ==
    [add |-> <<"a", "d", "d">>,
     campaign |-> <<"c", "a", "m", "p", "a", "i", "g", "n">>,
     cancel |-> <<"c", "a", "n", "c", "e", "l">>,
     create |-> <<"c", "r", "e", "a", "t", "e">>,
     createupdate |-> <<"c", "r", "e", "a", "t", "e", "u", "p", "d", "a", "t", "e">>,
     delete |-> <<"d", "e", "l", "e", "t", "e">>,
     device |-> <<"d", "e", "v", "i", "c", "e">>,
     fetch |-> <<"f", "e", "t", "c", "h">>,
     group |-> <<"g", "r", "o", "u", "p">>,
     init |-> <<"i", "n", "i", "t">>,
     launch |-> <<"l", "a", "u", "n", "c", "h">>,
     list |-> <<"l", "i", "s", "t">>,
     listupdates |-> <<"l", "i", "s", "t", "u", "p", "d", "a", "t", "e", "s">>,
     package |-> <<"p", "a", "c", "k", "a", "g", "e">>,
     remove |-> <<"r", "e", "m", "o", "v", "e">>,
     rename |-> <<"r", "e", "n", "a", "m", "e">>,
     update |-> <<"u", "p", "d", "a", "t", "e">>,
     upload |-> <<"u", "p", "l", "o", "a", "d">>]

\* Command::from_str
CommandFromStr(s) ==
    LET l == ToLowercase(s)
    IN  CASE l = Words.init -> Ok("Init")
          [] l = Words.campaign -> Ok("Campaign")
          [] l = Words.device -> Ok("Device")
          [] l = Words.group -> Ok("Group")
          [] l = Words.package -> Ok("Package")
          [] l = Words.update -> Ok("Update")
          [] OTHER -> Err("Command")

\* Campaign::from_str
CampaignFromStr(s) ==
    LET l == ToLowercase(s)
    IN  CASE l = Words.list -> Ok("List")
          [] l = Words.create -> Ok("Create")
          [] l = Words.launch -> Ok("Launch")
          [] l = Words.cancel -> Ok("Cancel")
          [] l = Words.createupdate -> Ok("CreateUpdate")
          [] l = Words.listupdates -> Ok("ListUpdates")
          [] OTHER -> Err("Command")

\* Device::from_str
DeviceFromStr(s) ==
    LET l == ToLowercase(s)
    IN  CASE l = Words.list -> Ok("List")
          [] l = Words.create -> Ok("Create")
          [] l = Words.delete -> Ok("Delete")
          [] OTHER -> Err("Command")

\* Group::from_str
GroupFromStr(s) ==
    LET l == ToLowercase(s)
    IN  CASE l = Words.list -> Ok("List")
          [] l = Words.create -> Ok("Create")
          [] l = Words.add -> Ok("Add")
          [] l = Words.rename -> Ok("Rename")
          [] l = Words.remove -> Ok("Remove")
          [] OTHER -> Err("Command")

\* Package::from_str
PackageFromStr(s) ==
    LET l == ToLowercase(s)
    IN  CASE l = Words.list -> Ok("List")
          [] l = Words.add -> Ok("Add")
          [] l = Words.fetch -> Ok("Fetch")
          [] l = Words.upload -> Ok("Upload")
          [] OTHER -> Err("Command")

\* Update::from_str
UpdateFromStr(s) ==
    LET l == ToLowercase(s)
    IN  CASE l = Words.create -> Ok("Create")
          [] l = Words.launch -> Ok("Launch")
          [] OTHER -> Err("Command")

Levels == {"Command", "Campaign", "Device", "Group", "Package", "Update"}

\* str::parse::<T> for the enum T of a level
FromStr(lv, s) ==
    CASE lv = "Command" -> CommandFromStr(s)
      [] lv = "Campaign" -> CampaignFromStr(s)
      [] lv = "Device" -> DeviceFromStr(s)
      [] lv = "Group" -> GroupFromStr(s)
      [] lv = "Package" -> PackageFromStr(s)
      [] OTHER -> UpdateFromStr(s)


(***************************************************************************)
(* from_str on bounded command tokens                                      *)
(***************************************************************************)
\* char::to_uppercase on the lower-case ASCII letters
UpperOf(c) ==
    IF \E i \in 1..Len(LowerCase) : LowerCase[i] = c
    THEN UpperCase[CHOOSE i \in 1..Len(LowerCase) : LowerCase[i] = c]
    ELSE c

\* the word with the characters at the positions of mask in upper case
CaseVariant(w, mask, kelvin) ==
    [i \in 1..Len(w) |->
       IF i \in mask
       THEN IF kelvin /\ w[i] = "k" THEN KelvinSign ELSE UpperOf(w[i])
       ELSE w[i]]

Masks(w) ==
    {m \in SUBSET (1..Len(w)) : Cardinality(m) <= MaxUpper} \cup {1..Len(w)}

VocabularyWords ==
    {Words.add, Words.campaign, Words.cancel, Words.create, Words.createupdate, Words.delete, Words.device, Words.fetch, Words.group, Words.init, Words.launch, Words.list, Words.listupdates, Words.package, Words.remove, Words.rename, Words.update, Words.upload}

\* tokens that are no word of any level
OtherWords ==
    {<<>>, <<"l", "i", "s">>, <<"l", "i", "s", "t", "x">>, <<"i", "n", "i", "t", " ">>,
     <<"h", "e", "l", "p">>, <<"l", "1", "s", "t">>}

Tokens ==
    UNION {{CaseVariant(w, m, k) : m \in Masks(w), k \in BOOLEAN}
           : w \in VocabularyWords \cup OtherWords}

ParseInit ==
    /\ level \in Levels
    /\ word \in Tokens
    /\ from_str = None
    /\ ProcIdle /\ NsIdle /\ ExpandIdle /\ RenderIdle

FromStrCall ==
    /\ from_str = None
    /\ from_str' = Some(FromStr(level, word))
    /\ UNCHANGED <<level, word, procVars, nsVars, expandVars, renderVars>>

ParseNext == FromStrCall

SpecParse == ParseInit /\ [][ParseNext]_vars

\* the closed vocabulary of each level: the enum variant of each word
Vocabulary ==
    [Command |-> {<<Words.init, "Init">>, <<Words.campaign, "Campaign">>, <<Words.device, "Device">>, <<Words.group, "Group">>, <<Words.package, "Package">>, <<Words.update, "Update">>},
     Campaign |-> {<<Words.list, "List">>, <<Words.create, "Create">>, <<Words.launch, "Launch">>, <<Words.cancel, "Cancel">>, <<Words.createupdate, "CreateUpdate">>, <<Words.listupdates, "ListUpdates">>},
     Device |-> {<<Words.list, "List">>, <<Words.create, "Create">>, <<Words.delete, "Delete">>},
     Group |-> {<<Words.list, "List">>, <<Words.create, "Create">>, <<Words.add, "Add">>, <<Words.rename, "Rename">>, <<Words.remove, "Remove">>},
     Package |-> {<<Words.list, "List">>, <<Words.add, "Add">>, <<Words.fetch, "Fetch">>, <<Words.upload, "Upload">>},
     Update |-> {<<Words.create, "Create">>, <<Words.launch, "Launch">>}]

\* the same letter, in any case
SameLetter(c, d) ==
    \/ c = d
    \/ \E i \in 1..Len(LowerCase) :
          LET class == {LowerCase[i], UpperCase[i]}
                       \cup (IF LowerCase[i] = "k" THEN {KelvinSign} ELSE {})
          IN  c \in class /\ d \in class

EqIgnoreCase(a, b) ==
    /\ Len(a) = Len(b)
    /\ \A i \in 1..Len(a) : SameLetter(a[i], b[i])

\* C9: at each level a token that is a word of the level's vocabulary in any
\* mix of upper and lower case parses to the word's tag, and every other
\* token is an unknown-command error.
C9_ParseCaseInsensitiveTotal ==
    IsSome(from_str) =>
       /\ \A e \in Vocabulary[level] : EqIgnoreCase(word, e[1]) => from_str[1] = Ok(e[2])
       /\ (\A e \in Vocabulary[level] : ~EqIgnoreCase(word, e[1])) => from_str[1] = Err("Command")

\* a mixed-case second-level token was parsed to its tag
C9_Witness ==
    /\ level = "Package"
    /\ word = <<"U", "p", "L", "o", "a", "D">>
    /\ from_str = Some(Ok("Upload"))


(***************************************************************************)
(* JSON bytes.  A byte string is a sequence of lexemes, each standing for  *)
(* the bytes it is written with: punctuation, white space, a string        *)
(* literal (s is the text between its quotes), a literal such as null, or  *)
(* bytes that start no JSON value.                                         *)
(***************************************************************************)
Punct(str) == [k |-> "punct", s |-> str]
Str(str) == [k |-> "string", s |-> str]
Lit(str) == [k |-> "literal", s |-> str]
Text(str) == [k |-> "text", s |-> str]

LBrace == Punct("{")
RBrace == Punct("}")
LBracket == Punct("[")
RBracket == Punct("]")
Colon == Punct(":")
Comma == Punct(",")
Space == [k |-> "space", s |-> " "]
Newline == [k |-> "space", s |-> "\n"]

\* a node of a JSON document: a string or literal (s), an array or an
\* object (items); key is the node's key when it is a member of an object
Node(t, str, items) == [t |-> t, s |-> str, key |-> "", items |-> items]

NoParse == [ok |-> FALSE, node |-> Node("literal", "null", <<>>), next |-> 0]
Parsed(node, next) == [ok |-> TRUE, node |-> node, next |-> next]

IsAt(b, i, lexeme) == i <= Len(b) /\ b[i] = lexeme

RECURSIVE SkipWhitespace(_, _)
SkipWhitespace(b, i) ==
    IF i <= Len(b) /\ b[i].k = "space" THEN SkipWhitespace(b, i + 1) ELSE i

\* serde_json's parser: a value, the elements of an array after `[`, the
\* members of an object after `{`
RECURSIVE ParseValue(_, _)
RECURSIVE ParseElements(_, _, _)
RECURSIVE ParseMembers(_, _, _)

ParseValue(b, from) ==
    LET i == SkipWhitespace(b, from)
    IN  IF i > Len(b) THEN NoParse
        ELSE IF b[i].k = "string" THEN Parsed(Node("string", b[i].s, <<>>), i + 1)
        ELSE IF b[i].k = "literal" THEN Parsed(Node("literal", b[i].s, <<>>), i + 1)
        ELSE IF b[i] = LBracket
        THEN IF IsAt(b, SkipWhitespace(b, i + 1), RBracket)
             THEN Parsed(Node("array", "", <<>>), SkipWhitespace(b, i + 1) + 1)
             ELSE ParseElements(b, i + 1, <<>>)
        ELSE IF b[i] = LBrace
        THEN IF IsAt(b, SkipWhitespace(b, i + 1), RBrace)
             THEN Parsed(Node("object", "", <<>>), SkipWhitespace(b, i + 1) + 1)
             ELSE ParseMembers(b, i + 1, <<>>)
        ELSE NoParse

ParseElements(b, from, acc) ==
    LET v == ParseValue(b, from)
        j == SkipWhitespace(b, v.next)
    IN  IF ~v.ok THEN NoParse
        ELSE IF IsAt(b, j, Comma) THEN ParseElements(b, j + 1, Append(acc, v.node))
        ELSE IF IsAt(b, j, RBracket) THEN Parsed(Node("array", "", Append(acc, v.node)), j + 1)
        ELSE NoParse

ParseMembers(b, from, acc) ==
    LET k == SkipWhitespace(b, from)
        c == SkipWhitespace(b, k + 1)
        v == ParseValue(b, c + 1)
        j == SkipWhitespace(b, v.next)
    IN  IF ~(k <= Len(b) /\ b[k].k = "string") THEN NoParse
        ELSE IF ~IsAt(b, c, Colon) THEN NoParse
        ELSE IF ~v.ok THEN NoParse
        ELSE LET member == [v.node EXCEPT !.key = b[k].s]
             IN  IF IsAt(b, j, Comma) THEN ParseMembers(b, j + 1, Append(acc, member))
                 ELSE IF IsAt(b, j, RBrace)
                 THEN Parsed(Node("object", "", Append(acc, member)), j + 1)
                 ELSE NoParse

\* the document of a byte string: one value, white space around it
ParseDocument(b) ==
    LET v == ParseValue(b, 1)
    IN  IF v.ok /\ SkipWhitespace(b, v.next) > Len(b) THEN Ok(v.node) ELSE Err("Json")

\* the keys of the documents, in byte order (the order of a BTreeMap)
SortedKeys == <<"custom", "expires", "foo-1", "hardwareIds", "length", "my-branch-1234",
                "name", "signed", "targetFormat", "targets", "updatedAt", "uri", "version">>
KeyRank(key) == CHOOSE i \in 1..Len(SortedKeys) : SortedKeys[i] = key

\* Map::insert: a key already present keeps its place and takes the new
\* value; a new key goes last (preserve_order) or to its sorted place
MapInsert(map, member, keep_order) ==
    IF \E i \in 1..Len(map) : map[i].key = member.key
    THEN [i \in 1..Len(map) |-> IF map[i].key = member.key THEN member ELSE map[i]]
    ELSE IF keep_order THEN Append(map, member)
    ELSE LET before == SelectSeq(map, LAMBDA m : KeyRank(m.key) < KeyRank(member.key))
             after == SelectSeq(map, LAMBDA m : KeyRank(m.key) > KeyRank(member.key))
         IN  before \o <<member>> \o after

RECURSIVE MapOf(_, _, _)
MapOf(members, map, keep_order) ==
    IF members = <<>> THEN map
    ELSE MapOf(Tail(members), MapInsert(map, Head(members), keep_order), keep_order)

\* serde_json::Value of a document: an object is a Map
RECURSIVE ValueOf(_, _)
ValueOf(node, keep_order) ==
    LET values == [i \in 1..Len(node.items) |-> ValueOf(node.items[i], keep_order)]
    IN  IF node.t = "object" THEN [node EXCEPT !.items = MapOf(values, <<>>, keep_order)]
        ELSE IF node.t = "array" THEN [node EXCEPT !.items = values]
        ELSE node

\* serde_json::from_slice::<Value>
FromSlice(b, keep_order) ==
    LET doc == ParseDocument(b)
    IN  IF doc.ok THEN Ok(ValueOf(doc.val, keep_order)) ELSE doc

\* serde_json::to_vec_pretty: two spaces of indentation per level
Indent(depth) == [i \in 1..(2 * depth) |-> Space]

RECURSIVE Pretty(_, _)
RECURSIVE PrettyItems(_, _, _)

Pretty(value, depth) ==
    IF value.t = "string" THEN <<Str(value.s)>>
    ELSE IF value.t = "literal" THEN <<Lit(value.s)>>
    ELSE LET open == IF value.t = "array" THEN LBracket ELSE LBrace
             close == IF value.t = "array" THEN RBracket ELSE RBrace
         IN  IF value.items = <<>> THEN <<open, close>>
             ELSE <<open>> \o PrettyItems(value.items, depth + 1, value.t = "object")
                  \o <<Newline>> \o Indent(depth) \o <<close>>

PrettyItems(items, depth, keyed) ==
    IF items = <<>> THEN <<>>
    ELSE <<Newline>> \o Indent(depth)
         \o (IF keyed THEN <<Str(Head(items).key), Colon, Space>> ELSE <<>>)
         \o Pretty(Head(items), depth)
         \o (IF Tail(items) = <<>> THEN <<>> ELSE <<Comma>>)
         \o PrettyItems(Tail(items), depth, keyed)

ToVecPretty(value) == Pretty(value, 0)


(***************************************************************************)
(* serde_json::from_slice::<TargetRole>: the derived deserializers read    *)
(* the members of an object in document order, refuse a field met twice    *)
(* or missing (an Option is None when missing or null) and skip the        *)
(* members they do not know.  A HashMap keeps the last value of a key.     *)
(***************************************************************************)
FieldsOf(node, name) == SelectSeq(node.items, LAMBDA m : m.key = name)
HasOne(node, name) == node.t = "object" /\ Len(FieldsOf(node, name)) = 1
Field(node, name) == FieldsOf(node, name)[1]

\* the names TargetFormat is written with in JSON, and the variants
TargetFormatNames == {"BINARY", "OSTREE"}
TargetFormatOf(name) == IF name = "BINARY" THEN "Binary" ELSE "Ostree"

CustomOk(c) ==
    /\ c.t = "object"
    /\ \A f \in {"name", "version", "updatedAt", "targetFormat"} :
          HasOne(c, f) /\ Field(c, f).t = "string"
    /\ Field(c, "targetFormat").s \in TargetFormatNames
    /\ HasOne(c, "hardwareIds")
    /\ Field(c, "hardwareIds").t = "array"
    /\ \A i \in 1..Len(Field(c, "hardwareIds").items) :
          Field(c, "hardwareIds").items[i].t = "string"
    /\ Len(FieldsOf(c, "uri")) <= 1
    /\ Len(FieldsOf(c, "uri")) = 1 =>
          \/ Field(c, "uri").t = "literal" /\ Field(c, "uri").s = "null"
          \/ Field(c, "uri").t = "string" /\ UrlParse(Field(c, "uri").s).ok

Custom(c) ==
    [name |-> Field(c, "name").s,
     version |-> Field(c, "version").s,
     hardware_ids |-> [i \in 1..Len(Field(c, "hardwareIds").items) |->
                         Field(c, "hardwareIds").items[i].s],
     uri |-> IF FieldsOf(c, "uri") = <<>> \/ Field(c, "uri").t = "literal"
             THEN None ELSE Some(UrlParse(Field(c, "uri").s).val),
     updated_at |-> Field(c, "updatedAt").s,
     target_format |-> TargetFormatOf(Field(c, "targetFormat").s)]

TargetOk(t) == HasOne(t, "custom") /\ CustomOk(Field(t, "custom"))

TargetsOk(ts) ==
    /\ HasOne(ts, "targets")
    /\ Field(ts, "targets").t = "object"
    /\ \A i \in 1..Len(Field(ts, "targets").items) : TargetOk(Field(ts, "targets").items[i])

TargetRoleOk(doc) == HasOne(doc, "signed") /\ TargetsOk(Field(doc, "signed"))

\* signed.targets as a HashMap from entry name to its custom part
TargetsMap(doc) ==
    LET members == Field(Field(doc, "signed"), "targets").items
        last(k) == CHOOSE i \in 1..Len(members) :
                      /\ members[i].key = k
                      /\ \A j \in (i + 1)..Len(members) : members[j].key # k
    IN  [k \in {members[i].key : i \in 1..Len(members)} |->
            Custom(Field(members[last(k)], "custom"))]

TargetRoleFromSlice(b) ==
    LET doc == ParseDocument(b)
    IN  IF doc.ok /\ TargetRoleOk(doc.val) THEN Ok(TargetsMap(doc.val)) ELSE Err("Json")

(***************************************************************************)
(* The table of list_packages.  A cell is the sequence of the strings it   *)
(* is joined from; to_string lays the header and the rows out line by      *)
(* line.                                                                   *)
(***************************************************************************)
TableHeader == <<"name", "name", "version", "hardware ids", "uri", "target_format",
                 "updated at">>

RECURSIVE Join(_, _)
Join(strs, sep) ==
    IF Len(strs) <= 1 THEN strs ELSE <<Head(strs), sep>> \o Join(Tail(strs), sep)

TableRow(k, v) ==
    <<<<k>>, <<v.name>>, <<v.version>>, Join(v.hardware_ids, ", "),
      IF IsSome(v.uri) THEN v.uri ELSE <<"None">>, <<v.target_format>>, <<v.updated_at>>>>

NewTable(rows) == [header |-> [i \in 1..Len(TableHeader) |-> <<TableHeader[i]>>], rows |-> rows]

TableLine(cells) ==
    Flatten([i \in 1..Len(cells) |->
               <<Text("|")>> \o [j \in 1..Len(cells[i]) |-> Text(cells[i][j])]])
    \o <<Text("|"), Text("\n")>>

TableToString(table) ==
    TableLine(table.header) \o Flatten([i \in 1..Len(table.rows) |-> TableLine(table.rows[i])])

\* CommandResult::Table and CommandResult::Http, with the bytes they hold
TableResult(response, table) == [kind |-> "Table", response |-> response, table |-> table]
HttpBody(response) == [kind |-> "Http", body |-> response]

\* list_packages from the response on: order is the HashMap's iteration
ListPackagesResult(str_resp, v, order) ==
    Ok(TableResult(str_resp,
                   NewTable([i \in 1..Len(order) |-> TableRow(order[i], v[order[i]])])))

PrintHttpResponseVerbatim(resp, keep_order) == resp

\* print_http_response
PrintHttpResponse(resp, keep_order) ==
    LET json == FromSlice(resp, keep_order)
    IN  IF json.ok THEN ToVecPretty(json.val) ELSE resp

PrintCommandResultAlwaysTable(table_mode, resp, keep_order) ==
    IF resp.kind = "Table" THEN TableToString(resp.table)
    ELSE IF resp.kind = "Http" THEN PrintHttpResponse(resp.body, keep_order)
    ELSE <<>>

\* print_command_result: the bytes written to stdout
PrintCommandResult(table_mode, resp, keep_order) ==
    IF resp.kind = "Table" /\ table_mode THEN TableToString(resp.table)
    ELSE IF resp.kind = "Table" THEN PrintHttpResponse(resp.response, keep_order)
    ELSE IF resp.kind = "Http" THEN PrintHttpResponse(resp.body, keep_order)
    ELSE <<>>


(***************************************************************************)
(* The rendering of a result: a response of the reposerver is turned into  *)
(* a CommandResult by list_packages or get_package (init gives the empty   *)
(* one) and print_command_result writes it out.                            *)
(***************************************************************************)
Other(str) == [k |-> "other", s |-> str]
Member(key, node) == [node EXCEPT !.key = key]
StrNode(str) == Node("string", str, <<>>)
Arr(items) == Node("array", "", items)
Obj(members) == Node("object", "", members)

CustomDoc(name, version, hardware, uri, updated, format) ==
    Obj(<<Member("name", StrNode(name)), Member("version", StrNode(version)),
          Member("hardwareIds", Arr([i \in 1..Len(hardware) |-> StrNode(hardware[i])]))>>
        \o [i \in 1..Len(uri) |-> Member("uri", uri[i])]
        \o <<Member("updatedAt", StrNode(updated)), Member("targetFormat", StrNode(format))>>)

TargetDoc(entry, custom) ==
    Member(entry, Obj(<<Member("length", Node("literal", "1", <<>>)), Member("custom", custom)>>))

RoleDoc(entries, more) == Obj(<<Member("signed", Obj(<<Member("targets", Obj(entries))>> \o more))>>)

FooDoc(uri, updated) ==
    TargetDoc("foo-1", CustomDoc("foo", "1", HardwareOf("foo", "1"), uri, updated, "BINARY"))
BranchDoc(format) ==
    TargetDoc("my-branch-1234",
              CustomDoc("my-branch", "1234", HardwareOf("my-branch", "1234"), <<>>,
                        "2020-02-02", format))

\* documents that are a targets role
RoleDocuments ==
    {RoleDoc(<<>>, <<>>),
     RoleDoc(<<FooDoc(<<Node("literal", "null", <<>>)>>, "2020-01-01")>>, <<>>),
     RoleDoc(<<BranchDoc("OSTREE"), FooDoc(<<StrNode("HTTPS://ACME.org")>>, "2020-01-01")>>,
             <<Member("expires", StrNode("2030-01-01"))>>),
     RoleDoc(<<FooDoc(<<>>, "2020-01-01"), FooDoc(<<>>, "2020-03-03")>>, <<>>)}

\* documents that are JSON and no targets role
OtherDocuments ==
    {Obj(<<Member("signed", Obj(<<>>))>>),
     Arr(<<StrNode("foo-1")>>),
     Obj(<<Member("signed", Obj(<<Member("targets", Obj(<<>>))>>)),
           Member("signed", Obj(<<Member("targets", Obj(<<>>))>>))>>),
     RoleDoc(<<BranchDoc("zip")>>, <<>>),
     RoleDoc(<<FooDoc(<<StrNode("downloads/foo")>>, "2020-01-01")>>, <<>>)}

\* a document written without white space
RECURSIVE Compact(_)
RECURSIVE CompactItems(_, _)
Compact(node) ==
    IF node.t = "string" THEN <<Str(node.s)>>
    ELSE IF node.t = "literal" THEN <<Lit(node.s)>>
    ELSE IF node.t = "array" THEN <<LBracket>> \o CompactItems(node.items, FALSE) \o <<RBracket>>
    ELSE <<LBrace>> \o CompactItems(node.items, TRUE) \o <<RBrace>>

CompactItems(items, keyed) ==
    IF items = <<>> THEN <<>>
    ELSE (IF keyed THEN <<Str(Head(items).key), Colon>> ELSE <<>>)
         \o Compact(Head(items))
         \o (IF Tail(items) = <<>> THEN <<>> ELSE <<Comma>>)
         \o CompactItems(Tail(items), keyed)

\* the same with a space after each colon and comma and a final newline
Spaced(b) ==
    Flatten([i \in 1..Len(b) |-> IF b[i] \in {Colon, Comma} THEN <<b[i], Space>> ELSE <<b[i]>>])
    \o <<Newline>>

Writings(doc) == {Compact(doc), Spaced(Compact(doc)), Pretty(doc, 0)}

\* the bodies a response can have
Bodies ==
    UNION {Writings(doc) : doc \in RoleDocuments \cup OtherDocuments}
    \cup {<<>>, <<Other("<html>")>>,
          Compact(RoleDoc(<<>>, <<>>)) \o <<RBrace>>,
          SubSeq(Compact(RoleDoc(<<>>, <<>>)), 1, 8)}

RenderInit ==
    /\ body \in Bodies
    /\ use_tables \in BOOLEAN
    /\ preserve_order \in BOOLEAN
    /\ command_result = None
    /\ stdout = None
    /\ ProcIdle /\ NsIdle /\ ExpandIdle /\ ParseIdle

renderRest == <<body, use_tables, preserve_order, procVars, nsVars, expandVars, parseVars>>

\* Package::List
ListPackages ==
    /\ command_result = None
    /\ LET v == TargetRoleFromSlice(body)
       IN  IF v.ok
           THEN \E order \in Orders(DOMAIN v.val) :
                    command_result' = Some(ListPackagesResult(body, v.val, order))
           ELSE command_result' = Some(v)
    /\ UNCHANGED <<stdout, renderRest>>

\* Package::Fetch
GetPackage ==
    /\ command_result = None
    /\ command_result' = Some(Ok(HttpBody(body)))
    /\ UNCHANGED <<stdout, renderRest>>

\* Command::Init
InitResult ==
    /\ command_result = None
    /\ command_result' = Some(Ok(Empty))
    /\ UNCHANGED <<stdout, renderRest>>

PrintResult ==
    /\ IsSome(command_result)
    /\ command_result[1].ok
    /\ stdout = None
    /\ stdout' = Some(PrintCommandResult(use_tables, command_result[1].val, preserve_order))
    /\ UNCHANGED <<command_result, renderRest>>

RenderNext == ListPackages \/ GetPackage \/ InitResult \/ PrintResult

SpecRender == RenderInit /\ [][RenderNext]_vars

\* a tabular result has been rendered with table mode off
TableOffRendered ==
    /\ IsSome(stdout)
    /\ IsSome(command_result)
    /\ command_result[1].ok
    /\ command_result[1].val.kind = "Table"
    /\ ~use_tables

Rendered == IsSome(stdout) /\ IsSome(command_result) /\ command_result[1].ok

\* what a raw-HTTP result holding the bytes b is rendered as
RawHttpOutput(b) ==
    IF FromSlice(b, preserve_order).ok
    THEN ToVecPretty(FromSlice(b, preserve_order).val)
    ELSE b

\* C11: print_command_result selects its output by result kind and table
\* flag: a tabular result with table mode on emits the formatted table; with
\* table mode off it emits what a raw-HTTP result with the same bytes emits
\* (pretty-printed JSON when the bytes parse, else the bytes); a raw-HTTP
\* result emits that whatever the flag; an empty result emits nothing.
C11_OutputByKindAndFlag ==
    Rendered =>
        LET r == command_result[1].val
        IN  /\ (r.kind = "Table" /\ use_tables) => stdout[1] = TableToString(r.table)
            /\ (r.kind = "Table" /\ ~use_tables) =>
                  /\ stdout[1] = RawHttpOutput(r.response)
                  /\ stdout[1] = PrintCommandResult(TRUE, HttpBody(r.response), preserve_order)
            /\ r.kind = "Http" => stdout[1] = RawHttpOutput(body)
            /\ r.kind = "Empty" => stdout[1] = <<>>

\* a listing of two packages rendered as a table, which is not what the
\* same bytes are rendered as with table mode off
C11_Witness ==
    /\ Rendered
    /\ command_result[1].val.kind = "Table"
    /\ use_tables
    /\ Len(command_result[1].val.table.rows) = 2
    /\ stdout[1] # RawHttpOutput(body)


(***************************************************************************)
(* Properties of the listing commands                                      *)
(***************************************************************************)
\* process p starts a listing command and its config file loads
ListStep(p) ==
    /\ proc[p].pc = "idle"
    /\ proc'[p].args.sub = "list"
    /\ ConfigLoad(disk).ok

\* the number of selectors on the command line
Supplied(args) ==
    (IF args.all THEN 1 ELSE 0) + Len(args.device) + Len(args.group)

\* every id on the command line is a UUID
IdsValid(args) ==
    /\ IsSome(args.device) => args.device[1] = "0000000000000000000000000000000D"
    /\ IsSome(args.group) => args.group[1] = "00000000-0000-0000-0000-000000000009"

\* the command ended with an error before any request
RejectedUnsent(p) ==
    /\ proc'[p].pc = "done"
    /\ ~proc'[p].result[1].ok
    /\ proc'[p].sent = <<>>

\* C12: for device and group listing exactly one of the selectors all,
\* device id, group id must be supplied: with none of them, or with more
\* than one, the command ends with a usage error and sends no request.
C12_ExactlyOneSelector ==
    [][\A p \in Procs :
          (ListStep(p) /\ Supplied(proc'[p].args) # 1) => RejectedUnsent(p)]_vars

\* the listing request the precedence --all, --device, --group chooses
ByPrecedence(args) ==
    LET devices == args.cmd = "device"
    IN  IF args.all
        THEN <<"get", IF devices THEN "list_all_devices" ELSE "list_all_groups", "">>
        ELSE IF IsSome(args.device)
        THEN <<"get", IF devices THEN "list_device" ELSE "list_groups",
               "00000000-0000-0000-0000-00000000000d">>
        ELSE <<"get", "list_devices", "00000000-0000-0000-0000-000000000009">>

RegistryRequests(st) == SelectSeq(st.sent, LAMBDA r : r.to = "registry")

\* C20: with more than one selector supplied and every id a UUID, the
\* command goes on to send exactly one listing request, the one chosen by
\* the precedence --all, --device, --group; an id that is no UUID makes the
\* command fail with the UUID parse error before any request, also when a
\* selector of higher precedence is supplied.
C20_SelectorPrecedence ==
    [][\A p \in Procs :
          /\ (ListStep(p) /\ ~IdsValid(proc'[p].args)) =>
                RejectedUnsent(p) /\ proc'[p].result = Some(Err("Uuid"))
          /\ (ListStep(p) /\ IdsValid(proc'[p].args) /\ Supplied(proc'[p].args) > 1) =>
                proc'[p].pc = "token"
          /\ (proc'[p].args.sub = "list" /\ Supplied(proc'[p].args) > 1) =>
                /\ Len(RegistryRequests(proc'[p])) <= 1
                /\ \A i \in 1..Len(RegistryRequests(proc'[p])) :
                      RegistryRequests(proc'[p])[i].what = ByPrecedence(proc'[p].args)
          /\ (proc[p].args.sub = "list" /\ proc[p].pc = "send"
              /\ Supplied(proc[p].args) > 1 /\ proc'[p].result # Some(Err("Http"))) =>
                Len(RegistryRequests(proc'[p])) = 1]_vars

\* a device listing given --all, --device and --group has sent its one
\* request, the listing of all devices
C20_Witness ==
    \E p \in Procs :
       /\ proc[p].args.cmd = "device"
       /\ proc[p].args.sub = "list"
       /\ Supplied(proc[p].args) = 3
       /\ proc[p].pc = "done"
       /\ proc[p].result[1].ok
       /\ Len(RegistryRequests(proc[p])) = 1
       /\ RegistryRequests(proc[p])[1].what = <<"get", "list_all_devices", "">>


(***************************************************************************)
(* Properties of the request pipeline                                      *)
(***************************************************************************)
\* process p is in Http::send for the command's request
SendStep(p) == proc[p].pc = "send" /\ proc'[p] # proc[p]

\* the request Http::send executed in this step
Executed(p) == proc'[p].sent[Len(proc'[p].sent)]

\* C13: Http::send with a token attaches the bearer header, and the
\* namespace header exactly when the namespace derivation succeeds; when it
\* fails the request is executed without the namespace header and the
\* failure is not returned (the only error of send is the HTTP one); with no
\* token neither header is attached.
C13_SendHeaders ==
    [][\A p \in Procs :
          SendStep(p) =>
             LET token == proc[p].token
             IN  /\ Len(proc'[p].sent) > Len(proc[p].sent) =>
                       IF IsSome(token)
                       THEN /\ Executed(p).bearer = Some(token[1].access_token)
                            /\ IsSome(Executed(p).namespace) <=> Namespace(token[1].scope).ok
                            /\ Namespace(token[1].scope).ok =>
                                  Executed(p).namespace = Some(Namespace(token[1].scope).val)
                       ELSE Executed(p).bearer = None /\ Executed(p).namespace = None
                 /\ (proc'[p].pc = "done" /\ ~proc'[p].result[1].ok) =>
                       proc'[p].result = Some(Err("Http"))]_vars

\* a command whose token has no namespace has got its response: the request
\* went out with the bearer header and without the namespace header
C13_Witness ==
    \E p \in Procs :
       /\ proc[p].pc = "done"
       /\ proc[p].result[1].ok
       /\ IsSome(proc[p].token)
       /\ ~Namespace(proc[p].token[1].scope).ok
       /\ \E i \in 1..Len(proc[p].sent) :
             /\ proc[p].sent[i].to = "reposerver"
             /\ IsSome(proc[p].sent[i].bearer)
             /\ proc[p].sent[i].namespace = None


(***************************************************************************)
(* Properties of the batch upload                                          *)
(***************************************************************************)
\* the uploads a process has sent, has got a response to, and has left
Puts(st) ==
    LET reqs == SelectSeq(st.sent, LAMBDA r : r.to = "reposerver")
    IN  [i \in 1..Len(reqs) |-> reqs[i].what]
Answered(st) == [i \in 1..Len(st.responses) |-> st.responses[i].what]
Pending(st) == [i \in 1..Len(st.queue) |-> <<"put", st.queue[i].name, st.queue[i].version>>]

\* the uploads sent are the first packages of the list, in its order, each
\* one answered before the next; the only one unanswered is the one whose
\* transport failed, which ended the command
InListOrder(st) ==
    \/ Puts(st) = Answered(st)
    \/ /\ Pending(st) # <<>>
       /\ Puts(st) = Append(Answered(st), Head(Pending(st)))
       /\ st.pc = "done"
       /\ st.result = Some(Err("Http"))

\* an upload that returned a result went through the whole list and
\* returned the response to its last package
LastReturned(st) ==
    (st.pc = "done" /\ st.result[1].ok) =>
        /\ Pending(st) = <<>>
        /\ Answered(st) # <<>>
        /\ st.result[1].val = Http(st.responses[Len(st.responses)])
        /\ st.result[1].val.what = Puts(st)[Len(Puts(st))]

\* an upload that returned an error sends nothing more
ErrorIsFinal(p) ==
    (proc[p].pc = "done" /\ proc'[p] # proc[p]) => proc'[p] = Idle

\* C14: add_packages uploads the packages one at a time in list order; at
\* the first upload that returns an error no later package is uploaded and
\* that error is returned; when all uploads succeed the result is that of
\* the last upload.
C14_BatchInOrderLastResult ==
    [][\A p \in Procs :
          /\ (proc[p].args.sub = "upload" /\ proc'[p].args.sub = "upload") =>
                /\ Answered(proc'[p]) \o Pending(proc'[p]) = Answered(proc[p]) \o Pending(proc[p])
                /\ Len(proc'[p].sent) <= Len(proc[p].sent) + 1
          /\ proc'[p].args.sub = "upload" => InListOrder(proc'[p]) /\ LastReturned(proc'[p])
          /\ ErrorIsFinal(p)]_vars

\* an upload of two packages has returned: the first was answered 500, the
\* second 200, and the result is the second response
C14_Witness ==
    \E p \in Procs :
       /\ proc[p].pc = "done"
       /\ proc[p].result[1].ok
       /\ Len(proc[p].responses) = 2
       /\ proc[p].responses[1].what # proc[p].responses[2].what
       /\ proc[p].responses[1].status = 500
       /\ proc[p].result[1].val.status = 200


(***************************************************************************)
(* Properties of one invocation                                            *)
(***************************************************************************)
\* process p is running a command other than init
NonInit(st) == st.pc # "idle" /\ st.args.cmd # "init"

\* C15: within one non-init invocation, whatever the number of its pipeline
\* calls, the config file is loaded once, at the start, and written at most
\* once, the write following a successful token refresh of that step; at
\* most one grant request is issued.
C15_LoadOnceWriteOnce ==
    [][\A p \in Procs :
          /\ (proc[p].pc = "idle" /\ NonInit(proc'[p])) =>
                proc'[p].loads = 1 /\ proc'[p].sent = <<>> /\ proc'[p].writes = 0
          /\ (NonInit(proc[p]) /\ NonInit(proc'[p])) => proc'[p].loads = proc[p].loads
          /\ NonInit(proc'[p]) =>
                /\ proc'[p].loads = 1
                /\ proc'[p].writes <= 1
                /\ Grants(proc'[p]) <= 1
          /\ (NonInit(proc[p]) /\ proc'[p].writes > proc[p].writes) =>
                /\ Grants(proc'[p]) = Grants(proc[p]) + 1
                /\ issued' = issued + 1
                /\ IsSome(proc'[p].config.token)
                /\ proc[p].config.token = None
          /\ (NonInit(proc[p]) /\ proc'[p].writes = proc[p].writes) => disk' = disk]_vars

\* an upload of two packages has returned after one load, one grant request
\* and one write
C15_Witness ==
    \E p \in Procs :
       /\ proc[p].pc = "done"
       /\ proc[p].result[1].ok
       /\ Len(proc[p].responses) = 2
       /\ proc[p].loads = 1
       /\ proc[p].writes = 1
       /\ Grants(proc[p]) = 1


\* C16: the credential archive is parsed at most once per process: once
\* Config::credentials has succeeded the Credentials stay on the
\* Configuration, they are the archive's, and no later token operation of
\* the run parses the archive again.
C16_CredentialsParsedOnce ==
    [][\A p \in Procs :
          /\ proc'[p].parses <= 1
          /\ proc'[p].parses > proc[p].parses =>
                /\ proc[p].config.credentials = None
                /\ archive.readable => proc'[p].config.credentials = Some(archive.creds)
          /\ (IsSome(proc[p].config.credentials) /\ proc'[p].pc # "idle") =>
                /\ proc'[p].parses = proc[p].parses
                /\ proc'[p].config.credentials = proc[p].config.credentials]_vars

\* an upload of two packages in no-auth mode has returned: token() ran
\* twice, the archive was parsed once
C16_Witness ==
    \E p \in Procs :
       /\ proc[p].pc = "done"
       /\ proc[p].result[1].ok
       /\ Len(proc[p].responses) = 2
       /\ proc[p].token = None
       /\ archive.creds.no_auth = Some(TRUE)
       /\ proc[p].parses = 1


\* C17: every Credentials record that token acquisition accepts has exactly
\* one of no_auth = true and an OAuth2 descriptor: a process that is past
\* token() with parsed Credentials holds such a record.
C17_AcceptedCredentialsExactlyOne ==
    \A p \in Procs :
       (proc[p].pc = "send" /\ IsSome(proc[p].config.credentials)) =>
          LET creds == proc[p].config.credentials[1]
          IN  (creds.no_auth = Some(TRUE)) # IsSome(creds.oauth2)


(***************************************************************************)
(* Properties of two invocations side by side                              *)
(***************************************************************************)
\* process p fetches a token in this step, having loaded none
Fetches(p) ==
    /\ proc[p].pc = "token"
    /\ proc[p].config.token = None
    /\ IsSome(proc'[p].config.token)

\* process p completes the write of its config file in this step
Writes(p) == proc[p].pc = "save_write" /\ proc'[p].pc = "send"

\* a process that fetched a token sends its requests with that token
UsesOwnToken(st) ==
    (Grants(st) = 1 /\ st.pc \in {"send", "done"} /\ IsSome(st.token)) =>
        /\ st.token = st.config.token
        /\ \A i \in 1..Len(st.sent) :
              st.sent[i].to = "reposerver" =>
                  st.sent[i].bearer = Some(st.config.token[1].access_token)

\* two processes that fetched a token hold different tokens
OwnTokens ==
    \A p, q \in Procs :
       (p # q /\ Grants(proc'[p]) = 1 /\ Grants(proc'[q]) = 1
        /\ IsSome(proc'[p].config.token) /\ IsSome(proc'[q].config.token)) =>
           proc'[p].config.token[1].access_token # proc'[q].config.token[1].access_token

\* each process that starts with no cached token issues its own grant
\* request and goes on to rewrite the file, and uses its own token
EachFetchesAndRewrites ==
    /\ \A p \in Procs :
          /\ Fetches(p) => Grants(proc'[p]) = Grants(proc[p]) + 1 /\ proc'[p].pc = "save_open"
          /\ UsesOwnToken(proc'[p])
    /\ OwnTokens

\* C18, as stated: with no locking, two concurrent invocations that start
\* with no cached token each issue their own grant request and each rewrite
\* the config file; each uses its own token for its own requests; and the
\* token left on disk is that of whichever process wrote last.
C18_LastWriterWins ==
    [][/\ EachFetchesAndRewrites
       /\ \A p \in Procs : Writes(p) => disk' = FileOf(proc[p].config)]_vars

\* C18, amended: as above, but a completed write leaves the writer's config
\* on disk only if it covers the file: when the other process wrote a longer
\* file after the writer's truncation, the file is left as a mix of both
\* that no longer parses. A file that parses never holds another token than
\* the last writer's.
C18_LastWriterWinsUnlessMixed ==
    [][/\ EachFetchesAndRewrites
       /\ \A p \in Procs :
             Writes(p) =>
                /\ disk'.valid => disk' = FileOf(proc[p].config)
                /\ ~disk'.valid => disk.size > ConfigBytes(proc[p].config)
                /\ disk.size = 0 => disk'.valid]_vars

\* both processes fetched a token and wrote the file; the token on disk is
\* that of p1, which was granted first and wrote last
C18_Witness ==
    /\ \A p \in Procs :
          /\ proc[p].pc = "send"
          /\ Grants(proc[p]) = 1
          /\ proc[p].writes = 1
          /\ IsSome(proc[p].token)
    /\ proc["p1"].token[1].access_token < proc["p2"].token[1].access_token
    /\ disk = FileOf(proc["p1"].config)


\* process p is in token() with no token cached and the refresh fails: the
\* archive does not parse, or the grant request fails in transport or is
\* answered with a malformed token response
RefreshFails(p) ==
    /\ proc[p].pc = "token"
    /\ proc[p].config.token = None
    /\ proc'[p] # proc[p]
    /\ \/ ~CredentialsParse(archive).ok
       \/ /\ Grants(proc'[p]) > Grants(proc[p])
          /\ issued' = issued

\* C19: a failed token refresh leaves the state unchanged: token() returns
\* the error and the command ends with it, the Configuration's token stays
\* absent, the config file is not written and the command's own request is
\* never sent.
C19_FailedRefreshChangesNothing ==
    [][\A p \in Procs :
          RefreshFails(p) =>
             /\ proc'[p].pc = "done"
             /\ proc'[p].result \in {Some(Err("Zip")), Some(Err("Http"))}
             /\ proc'[p].config.token = None
             /\ proc'[p].token = None
             /\ disk' = disk
             /\ proc'[p].writes = proc[p].writes
             /\ Puts(proc'[p]) = Puts(proc[p])
             /\ Puts(proc'[p]) = <<>>]_vars

\* a command has ended with the error of its grant request: the request went
\* to the issuer, nothing went to the reposerver, nothing was written
C19_Witness ==
    \E p \in Procs :
       /\ proc[p].pc = "done"
       /\ proc[p].result = Some(Err("Http"))
       /\ Grants(proc[p]) = 1
       /\ Puts(proc[p]) = <<>>
       /\ proc[p].config.token = None
       /\ proc[p].writes = 0
       /\ disk = FileOf(NewConfig)


(***************************************************************************)
(* Properties of the HTTP status                                           *)
(***************************************************************************)
\* every answer the server gave to the command's requests is held as a
\* response, with the status the server gave
KeptAsSuccess(st) ==
    /\ Len(st.responses) = Len(st.received)
    /\ \A i \in 1..Len(st.responses) : st.responses[i].status = st.received[i]

\* the server answered the request of this step
AnsweredStep(p) == SendStep(p) /\ Len(proc'[p].received) > Len(proc[p].received)

\* add_packages returns in this step, from a list that was not empty
ReturnStep(p) ==
    /\ proc[p].pc = "add_packages"
    /\ proc[p].queue = <<>>
    /\ proc[p].responses # <<>>
    /\ proc'[p] # proc[p]

\* C21: Http::send returns every response it received as Ok, whatever the
\* status: in a batch upload an answered request is never an error, the
\* batch goes on with the next package and returns the last response; the
\* batch is stopped in send only by a request that got no answer.
C21_AnyResponseIsSuccess ==
    [][\A p \in Procs :
          LET st == proc[p]
              after == proc'[p]
              status == after.received[Len(after.received)]
          IN  /\ after.args.sub = "upload" => KeptAsSuccess(after)
              /\ (AnsweredStep(p) /\ st.args.sub = "upload") =>
                    /\ after.pc = "add_packages"
                    /\ after.result = None
                    /\ after.queue = Tail(st.queue)
                    /\ after.responses =
                          Append(st.responses, [status |-> status, what |-> Wanted(st)])
              /\ (AnsweredStep(p) /\ st.args.sub # "upload") =>
                    /\ after.pc = "done"
                    /\ after.result =
                          Some(Ok(Http([status |-> status, what |-> Wanted(st)])))
              /\ (SendStep(p) /\ ~AnsweredStep(p)) =>
                    /\ after.pc = "done"
                    /\ after.result = Some(Err("Http"))
              /\ ReturnStep(p) =>
                    /\ after.pc = "done"
                    /\ after.result[1].ok
                    /\ after.result[1].val.status = st.received[Len(st.received)]]_vars

\* an upload of two packages has returned: the first was answered 404, the
\* second 500, both requests were sent and the result is the 500 response
C21_Witness ==
    \E p \in Procs :
       /\ proc[p].args.sub = "upload"
       /\ proc[p].pc = "done"
       /\ proc[p].received = <<404, 500>>
       /\ Len(Puts(proc[p])) = 2
       /\ proc[p].result[1].ok
       /\ proc[p].result[1].val.kind = "Http"
       /\ proc[p].result[1].val.status = 500


(***************************************************************************)
(* Properties of the empty batch                                           *)
(***************************************************************************)
\* Package::exec hands add_packages the list of process p in this step
BatchStarts(p) == proc[p].pc = "idle" /\ proc'[p].pc = "add_packages"

\* add_packages of process p returns in this step, from a list that was empty
EmptyReturnStep(p) ==
    /\ proc[p].pc = "add_packages"
    /\ proc[p].queue = <<>>
    /\ proc[p].responses = <<>>
    /\ proc'[p] # proc[p]

\* C22: add_packages on an empty package list, which is what a declarative
\* file with no (name, version) pair expands to, sends no request and ends
\* in a panic at the index of the last response, in builds with and
\* without overflow checks: the command returns neither a CommandResult nor
\* an Error value.
C22_EmptyBatchPanics ==
    [][\A p \in Procs :
          /\ BatchStarts(p) =>
                (proc'[p].queue = <<>> <=> Pairs(proc'[p].args.packages[1]) = {})
          /\ EmptyReturnStep(p) =>
                /\ Pairs(proc[p].args.packages[1]) = {}
                /\ proc'[p].pc = "done"
                /\ proc'[p].result = Some(Panicked)
                /\ proc'[p].sent = <<>>
                /\ proc'[p].received = <<>>
          /\ (proc'[p].pc = "done" /\ proc'[p].result = Some(Panicked)) =>
                (EmptyReturnStep(p) \/ proc'[p] = proc[p])]_vars

\* an upload of a file that names a package but no version of it has ended
\* in the panic, with nothing sent
C22_Witness ==
    \E p \in Procs :
       /\ proc[p].args.sub = "upload"
       /\ IsSome(proc[p].args.packages)
       /\ DOMAIN proc[p].args.packages[1] = {"foo"}
       /\ Pairs(proc[p].args.packages[1]) = {}
       /\ proc[p].pc = "done"
       /\ proc[p].result = Some(Panicked)
       /\ proc[p].sent = <<>>


(***************************************************************************)
(* Properties of init                                                      *)
(***************************************************************************)
\* process p runs the init command in this step
InitStep(p) == proc[p].pc = "idle" /\ proc'[p].args.cmd = "init"

\* the credentials in the archive select OAuth2
OAuth2Mode ==
    /\ archive.readable
    /\ CredentialsOauth2(archive.creds).ok
    /\ IsSome(CredentialsOauth2(archive.creds).val)

\* process p calls token() while the config file is as init wrote it
FirstTokenAfterInit(p) == TokenStep(p) /\ disk = FileOf(NewConfig)

\* C23: init builds its Configuration with no token and writes that one: it
\* does not load the config file and sends no token request, and when it
\* has returned the file holds no token whatever it held before. The next
\* command therefore loads no token, and in OAuth2 mode its first token()
\* call goes to the issuer for a new grant instead of reusing a token.
C23_InitDiscardsCachedToken ==
    [][\A p \in Procs :
          LET st == proc[p]
              after == proc'[p]
          IN  /\ InitStep(p) =>
                    /\ after.pc = "done"
                    /\ after.loads = 0
                    /\ after.sent = <<>>
                    /\ issued' = issued
                    /\ after.config.token = None
                    /\ after.token = None
                    /\ disk' \in {disk, Truncated, FileOf(NewConfig)}
                    /\ after.result = Some(Ok(Empty)) =>
                          /\ disk' = FileOf(NewConfig)
                          /\ ConfigLoad(disk').val.token = None
              /\ FirstTokenAfterInit(p) =>
                    /\ st.config.token = None
                    /\ OAuth2Mode =>
                          /\ \/ /\ Grants(after) = Grants(st) + 1
                                /\ after.sent[Len(after.sent)].to = "issuer"
                             \/ /\ after.sent = st.sent
                                /\ after.result = Some(Err("Http"))
                          /\ after.pc = "send" =>
                                /\ Grants(after) = Grants(st) + 1
                                /\ issued' = issued + 1
                                /\ after.token = after.config.token
                                /\ IsSome(after.token)
                                /\ after.token[1].access_token = issued']_vars

\* init has returned after replacing a config file that held a cached
\* token: the file now holds none
C23_Witness ==
    \E p \in Procs :
       /\ proc[p].args.cmd = "init"
       /\ proc[p].pc = "done"
       /\ proc[p].result = Some(Ok(Empty))
       /\ proc[p].replaced.valid
       /\ IsSome(proc[p].replaced.token)
       /\ disk = FileOf(NewConfig)
       /\ issued >= 1

=============================================================================
